---------------------------- MODULE Spec2Model ----------------------------
(***************************************************************************)
(* A model of the deterministic ("no llm") pipeline of the repository:     *)
(*   utils.find_quarter_year_from_filename   (period from a file name)     *)
(*   pdf_reader_no_llm.extract_metrics / get_metrics_values_from_pdf       *)
(*   excel_reader_no_llm.find_column_index_for_quarter_year /              *)
(*                       get_metrics_from_df / get_metrics_values_from_excel*)
(*   main.compare_values / main.main                                       *)
(*                                                                         *)
(* Strings are sequences of one-character strings.  Python floats are      *)
(* modelled as exact decimals m * 10^e kept in normal form (no trailing    *)
(* zero in m), so that equality of floats is equality of records; NaN and  *)
(* None are values of their own.                                           *)
(***************************************************************************)
EXTENDS Integers, Sequences, FiniteSets, TLC

VARIABLES
    pc,                 \* position of the modelled call
    pdf_metric_dict,    \* main.py: argument 1 of compare_values
    excel_metric_dict,  \* main.py: argument 2 of compare_values
    relative_tolerance, \* main.py: argument 3 of compare_values
    results,            \* main.py: the list compare_values returns
    calls,              \* history: the is_within_tolerance calls, in order
    filename,           \* utils.py: the argument of find_quarter_year_from_filename
    period,             \* utils.py: the quarter and year it returns, with the idx
                        \* printed by "Pattern {idx} matched" (utils.py 102; 0: none)
    pdf_file,           \* main.py 158: the path of the document
    sentences,          \* pdf_reader_no_llm.py 217: the sentences of its text
    extracted_data,     \* pdf_reader_no_llm.py 228: the observations
    pdf_metrics,        \* main.py 165: the list get_metrics_values_from_pdf returns
    excel_file,         \* main.py 159: the path of the workbook
    summary_df,         \* excel_reader_no_llm.py 109: the grid of its sheet "Summary"
    header_row,         \* excel_reader_no_llm.py 110: the row the locator returns
    text_idx,           \* excel_reader_no_llm.py 55: argument 2 of get_metrics_from_df
    column_index,       \* excel_reader_no_llm.py 55: argument 3 of get_metrics_from_df
    selected_rows,      \* history: the row each value of the Excel dict was read from
    norm_call,          \* pdf_reader_no_llm.py 91: the arguments of normalize_value
    norm_ret            \* pdf_reader_no_llm.py 91: the pair it returns

vars == <<pc, pdf_metric_dict, excel_metric_dict, relative_tolerance, results, calls,
          filename, period, pdf_file, sentences, extracted_data, pdf_metrics,
          excel_file, summary_df, header_row, text_idx, column_index, selected_rows,
          norm_call, norm_ret>>

compareVars == <<pdf_metric_dict, excel_metric_dict, relative_tolerance, results, calls>>
resolverVars == <<filename, period>>
pdfVars == <<pdf_file, sentences, extracted_data, pdf_metrics>>
excelVars == <<excel_file, summary_df, header_row, text_idx, column_index, selected_rows>>
normVars == <<norm_call, norm_ret>>

----------------------------------------------------------------------------
(* Generic helpers                                                         *)

Abs(n) == IF n < 0 THEN -n ELSE n

Min(S) == CHOOSE x \in S : \A y \in S : x <= y

Range(s) == {s[i] : i \in 1..Len(s)}

RECURSIVE Pow10(_)
Pow10(n) == IF n = 0 THEN 1 ELSE 10 * Pow10(n - 1)

----------------------------------------------------------------------------
(* Python values                                                           *)

None == [kind |-> "none"]
NaN == [kind |-> "nan"]

\* the float m * 10^e
Dec(m, e) ==
    LET
        RECURSIVE StripZeros(_, _)
        StripZeros(n, k) ==
            IF n = 0 THEN [kind |-> "num", m |-> 0, e |-> 0]
            ELSE IF n % 10 = 0 THEN StripZeros(n \div 10, k + 1)
            ELSE [kind |-> "num", m |-> n, e |-> k]
    IN
    IF m < 0 THEN [StripZeros(-m, e) EXCEPT !.m = -@] ELSE StripZeros(m, e)

Str(s) == [kind |-> "str", s |-> s]

IsNum(x) == x.kind = "num"
IsNaN(x) == x.kind = "nan"
IsStr(x) == x.kind = "str"

\* excel_reader_no_llm.py 38, 52: None where a row or column index is expected
NoIndex == -1

\* utils.py 107: (None, None), no pattern idx printed
NoPeriod == [quarter |-> None, year |-> None, idx |-> 0]

Zero == Dec(0, 0)
One == Dec(1, 0)

\* Python's x <= y on floats (False when either is NaN)
FLeq(x, y) ==
    LET
        \* number of decimal digits of n >= 0 (1 for 0)
        RECURSIVE NumDigits(_)
        NumDigits(n) == IF n < 10 THEN 1 ELSE 1 + NumDigits(n \div 10)

        \* decimal order of magnitude of a nonzero float
        Mag(z) == NumDigits(Abs(z.m)) + z.e

        \* |x| <= |y| for nonzero floats, with no product larger than the operands
        AbsLeq(a, b) ==
            IF Mag(a) # Mag(b) THEN Mag(a) < Mag(b)
            ELSE IF a.e >= b.e THEN Abs(a.m) * Pow10(a.e - b.e) <= Abs(b.m)
            ELSE Abs(a.m) <= Abs(b.m) * Pow10(b.e - a.e)
    IN
    /\ IsNum(x) /\ IsNum(y)
    /\ IF x.m = 0 THEN y.m >= 0
       ELSE IF y.m = 0 THEN x.m < 0
       ELSE IF x.m < 0 /\ y.m > 0 THEN TRUE
       ELSE IF x.m > 0 /\ y.m < 0 THEN FALSE
       ELSE IF x.m > 0 THEN AbsLeq(x, y)
       ELSE AbsLeq(y, x)

\* Python's x > y on floats (False when either is NaN)
FGt(x, y) == IsNum(x) /\ IsNum(y) /\ ~FLeq(x, y)

\* Python's x == 0
FIsZero(x) == IsNum(x) /\ x.m = 0

FMul(x, y) == IF IsNum(x) /\ IsNum(y) THEN Dec(x.m * y.m, x.e + y.e) ELSE NaN

\* x * 10^k and x / 10^k (exact on decimals)
FScale(x, k) == IF IsNum(x) THEN Dec(x.m, x.e + k) ELSE NaN

\* 1 - tol and 1 + tol, for a tolerance with at most MaxTolDigits decimals
FOnePlus(tol) ==
    IF tol.e >= 0 THEN Dec(1 + tol.m * Pow10(tol.e), 0)
    ELSE Dec(Pow10(-tol.e) + tol.m, tol.e)
FOneMinus(tol) ==
    IF tol.e >= 0 THEN Dec(1 - tol.m * Pow10(tol.e), 0)
    ELSE Dec(Pow10(-tol.e) - tol.m, tol.e)

----------------------------------------------------------------------------
(* Characters and the text of a float                                      *)

DigitChars == <<"0", "1", "2", "3", "4", "5", "6", "7", "8", "9">>

DigitSet == Range(DigitChars)

IsDigit(c) == c \in DigitSet

\* Python's str(x) / f"{x}" of a float in [1e-4, 1e16) (no exponent notation)
FloatStr(x) ==
    LET
        \* the decimal digits of n >= 0
        RECURSIVE NatStr(_)
        NatStr(n) == IF n < 10 THEN <<DigitChars[n + 1]>>
                     ELSE NatStr(n \div 10) \o <<DigitChars[(n % 10) + 1]>>

        Zeros(k) == [i \in 1..k |-> "0"]
    IN
    IF IsNaN(x) THEN <<"n", "a", "n">>
    ELSE LET ds   == NatStr(Abs(x.m))
             sign == IF x.m < 0 THEN <<"-">> ELSE <<>>
         IN  IF x.e >= 0 THEN sign \o ds \o Zeros(x.e) \o <<".", "0">>
             ELSE IF Len(ds) > -x.e
                  THEN sign \o SubSeq(ds, 1, Len(ds) + x.e) \o <<".">>
                            \o SubSeq(ds, Len(ds) + x.e + 1, Len(ds))
                  ELSE sign \o <<"0", ".">> \o Zeros(-x.e - Len(ds)) \o ds

\* Python's str(unit) inside an f-string: a unit is a string, or None
\* (written "None" here; no unit of the program is the string 'None')
UnitStr(u) ==
    CASE u = "%" -> <<"%">>
      [] u = "$" -> <<"$">>
      [] u = "B" -> <<"B">>
      [] u = "M" -> <<"M">>
      [] u = "" -> <<>>
      [] u = "nan" -> <<"n", "a", "n">>
      [] u = "None" -> <<"N", "o", "n", "e">>

----------------------------------------------------------------------------
(* Python dicts: insertion-ordered sequences of [key, val] with unique keys *)

DictKeys(d) == {d[i].key : i \in 1..Len(d)}

DictGet(d, k) == d[CHOOSE i \in 1..Len(d) : d[i].key = k].val

----------------------------------------------------------------------------
(* main.py: compare_values                                                 *)

is_within_tolerance_lower_only(a, b, tol) ==
    IF FIsZero(b) THEN FIsZero(a)
    ELSE /\ IsNum(a) /\ IsNum(b)
         /\ IF b.m > 0
            THEN FLeq(FMul(FOneMinus(tol), b), a)
            ELSE FLeq(a, FMul(FOneMinus(tol), b))

\* main.py 33-37, with ratio = a / b kept exact: c <= a/b and a/b <= c are
\* decided on c * b and a, by the sign of b
is_within_tolerance_strict(a, b, tol) ==
    IF FIsZero(b) THEN FIsZero(a)
    ELSE /\ IsNum(a) /\ IsNum(b)
         /\ IF b.m > 0
            THEN /\ FLeq(FMul(FOneMinus(tol), b), a) /\ FMul(FOneMinus(tol), b) # a
                 /\ FLeq(a, FMul(FOnePlus(tol), b)) /\ FMul(FOnePlus(tol), b) # a
            ELSE /\ FLeq(a, FMul(FOneMinus(tol), b)) /\ FMul(FOneMinus(tol), b) # a
                 /\ FLeq(FMul(FOnePlus(tol), b), a) /\ FMul(FOnePlus(tol), b) # a

is_within_tolerance(a, b, tol) ==
    IF FIsZero(b) THEN FIsZero(a)
    ELSE /\ IsNum(a) /\ IsNum(b)
         /\ IF b.m > 0
            THEN /\ FLeq(FMul(FOneMinus(tol), b), a)
                 /\ FLeq(a, FMul(FOnePlus(tol), b))
            ELSE /\ FLeq(a, FMul(FOneMinus(tol), b))
                 /\ FLeq(FMul(FOnePlus(tol), b), a)

\* main.py 43: excel_value / 100.0 if excel_value > 1 else excel_value
excel_adj_always(excel_value) == FScale(excel_value, -2)

excel_adj(excel_value) ==
    IF FGt(excel_value, One) THEN FScale(excel_value, -2) ELSE excel_value

Times1000Call(pdf_value, excel_value) == [a |-> pdf_value, b |-> FScale(excel_value, 3)]

Div1000Call(pdf_value, excel_value) == [a |-> pdf_value, b |-> FScale(excel_value, -3)]

RetryCalls_swapped(pdf_value, pdf_unit, excel_value, tol) ==
    IF pdf_unit = "%" THEN <<>>
    ELSE LET c2 == Div1000Call(pdf_value, excel_value)
             c3 == Times1000Call(pdf_value, excel_value)
         IN  IF is_within_tolerance(c2.a, c2.b, tol) THEN <<c2>> ELSE <<c2, c3>>

RetryCalls_percent_too(pdf_value, pdf_unit, excel_value, tol) ==
    LET c2 == Times1000Call(pdf_value, excel_value)
        c3 == Div1000Call(pdf_value, excel_value)
    IN  IF is_within_tolerance(c2.a, c2.b, tol) THEN <<c2>> ELSE <<c2, c3>>

\* main.py 51-61: the retries after a failed first comparison
RetryCalls(pdf_value, pdf_unit, excel_value, tol) ==
    IF pdf_unit = "%" THEN <<>>
    ELSE LET c2 == Times1000Call(pdf_value, excel_value)
             c3 == Div1000Call(pdf_value, excel_value)
         IN  IF is_within_tolerance(c2.a, c2.b, tol) THEN <<c2>> ELSE <<c2, c3>>

MetricCalls(pdf_value, pdf_unit, excel_value, tol) ==
    LET
        \* main.py 39-61: the arguments of the is_within_tolerance calls that are
        \* made for one metric present in both dicts, in the order of the code
        FirstCall ==
            IF pdf_unit = "%"
            THEN [a |-> FScale(pdf_value, -2), b |-> excel_adj(excel_value)]
            ELSE [a |-> pdf_value, b |-> excel_value]
    IN
    LET c1 == FirstCall
    IN  IF is_within_tolerance(c1.a, c1.b, tol) THEN <<c1>>
        ELSE <<c1>> \o RetryCalls(pdf_value, pdf_unit, excel_value, tol)

RECURSIVE PdfRecords(_, _, _, _)
PdfRecords(pdf, i, excel, tol) ==
    LET
        \* main.py 30-61: match_status is "Match" iff some call made returned True,
        \* and no call is made after one that did
        match_status(pdf_value, pdf_unit, excel_value) ==
            LET cs == MetricCalls(pdf_value, pdf_unit, excel_value, tol)
            IN  IF is_within_tolerance(cs[Len(cs)].a, cs[Len(cs)].b, tol)
                THEN "Match" ELSE "No Match"

        \* main.py 63: f"{value}{unit}" if pdf_unit else f"{value}"
        pdf_display(pdf_info) ==
            IF pdf_info.unit \in {"", "None"}
            THEN Str(FloatStr(pdf_info.value))
            ELSE Str(FloatStr(pdf_info.value) \o UnitStr(pdf_info.unit))

        \* main.py 64: f"{excel_value}"
        excel_display(excel_value) ==
            IF IsStr(excel_value) THEN excel_value ELSE Str(FloatStr(excel_value))

        \* main.py 20-66: the record of one key of pdf_metric_dict
        PdfRecord(metric, pdf_info) ==
            IF metric \notin DictKeys(excel)
            THEN <<metric, Str(FloatStr(pdf_info.value) \o UnitStr(pdf_info.unit)), None, "No Match">>
            ELSE <<metric, pdf_display(pdf_info), excel_display(DictGet(excel, metric)),
                   match_status(pdf_info.value, pdf_info.unit, DictGet(excel, metric))>>
    IN
    IF i > Len(pdf) THEN <<>>
    ELSE <<PdfRecord(pdf[i].key, pdf[i].val)>> \o PdfRecords(pdf, i + 1, excel, tol)

RECURSIVE ExcelOnlyRecords(_, _, _)
ExcelOnlyRecords(pdf, excel, i) ==
    LET
        \* main.py 69-72: the record of one key of excel_metric_dict missing in the pdf dict
        ExcelOnlyRecord(metric) == <<metric, None, DictGet(excel, metric), "No Match">>
    IN
    IF i > Len(excel) THEN <<>>
    ELSE (IF excel[i].key \notin DictKeys(pdf)
          THEN <<ExcelOnlyRecord(excel[i].key)>> ELSE <<>>)
         \o ExcelOnlyRecords(pdf, excel, i + 1)

compare_values_intersection(pdf, excel, tol) ==
    PdfRecords(SelectSeq(pdf, LAMBDA it : it.key \in DictKeys(excel)), 1, excel, tol)

\* main.py 10-74
compare_values(pdf, excel, tol) ==
    PdfRecords(pdf, 1, excel, tol) \o ExcelOnlyRecords(pdf, excel, 1)

\* main.py 28-37, 43: a str cell as the Excel value of a metric of both dicts
\* raises TypeError in "excel_value > 1" or in "a / b"
compare_raises(pdf, excel) ==
    \E i \in 1..Len(excel) : excel[i].key \in DictKeys(pdf) /\ IsStr(excel[i].val)

\* history: every is_within_tolerance call of one compare_values run
RECURSIVE AllCalls(_, _, _, _)
AllCalls(pdf, i, excel, tol) ==
    IF i > Len(pdf) THEN <<>>
    ELSE (IF pdf[i].key \in DictKeys(excel)
          THEN LET cs == MetricCalls(pdf[i].val.value, pdf[i].val.unit,
                                     DictGet(excel, pdf[i].key), tol)
               IN  [k \in 1..Len(cs) |->
                      [metric |-> pdf[i].key, a |-> cs[k].a, b |-> cs[k].b,
                       ret |-> is_within_tolerance(cs[k].a, cs[k].b, tol)]]
          ELSE <<>>)
         \o AllCalls(pdf, i + 1, excel, tol)

----------------------------------------------------------------------------
(* The fixed metric vocabulary                                             *)

\* pdf_reader_no_llm.py 266-272, excel_reader_no_llm.py 60-66
metrics == <<"CET1 Capital Ratio", "Tangible book value per share",
             "Book value per share", "Net income", "Revenues">>

MetricSet == Range(metrics)

----------------------------------------------------------------------------
(* compare_values as a function: its inputs                                *)

MaxExp == 5
MaxKeys == 2

\* the default of main.py 10
DefaultTolerance == Dec(5, -2)

\* one metric in both dicts, any pair of values
NumericInputs ==
    LET
        Tolerances == {Dec(0, 0), DefaultTolerance, Dec(5, -1), Dec(98, -2), Dec(2, 0)}

        CmpMants == {0, 1, 32, 94, 95, 105, 106, 136, -32}

        \* floats between 0.001 and 136 * 10^MaxExp, around the 5% band and the
        \* 1000-fold scales
        CmpValues == {Dec(m, e) : m \in CmpMants, e \in -3..MaxExp}

        CmpUnits == {"%", "$", ""}
    IN
    {[pdf |-> <<[key |-> k, val |-> [value |-> v, unit |-> u]]>>,
      excel |-> <<[key |-> k, val |-> x]>>, tol |-> t] :
        k \in {"CET1 Capital Ratio"}, v \in CmpValues, u \in CmpUnits,
        x \in CmpValues \cup {NaN}, t \in Tolerances}

\* dicts of at most MaxKeys metrics each, in any key order
StructuralInputs ==
    LET
        \* sequences of distinct metrics of length at most MaxKeys
        KeySeqs == UNION {{ks \in [1..n -> MetricSet] : \A i, j \in 1..n : i # j => ks[i] # ks[j]} :
                          n \in 0..MaxKeys}

        SamplePdfInfo(k) ==
            CASE k = "CET1 Capital Ratio" -> {[value |-> Dec(136, -1), unit |-> "%"]}
              [] k = "Tangible book value per share" -> {[value |-> Dec(551, -1), unit |-> "$"]}
              [] k = "Book value per share" -> {[value |-> Dec(997, -1), unit |-> "$"]}
              [] k = "Net income" -> {[value |-> Dec(32, -1), unit |-> "B"],
                                      [value |-> Dec(32, 2), unit |-> "None"]}
              [] k = "Revenues" -> {[value |-> Dec(203, -1), unit |-> "B"],
                                    [value |-> Dec(203, -4), unit |-> "M"]}

        SampleExcelValue(k) ==
            CASE k = "CET1 Capital Ratio" -> {Dec(136, -3)}
              [] k = "Tangible book value per share" -> {Dec(551, -1)}
              [] k = "Book value per share" -> {Dec(90, 0)}
              [] k = "Net income" -> {Dec(32, 2)}
              [] k = "Revenues" -> {Dec(203, 2), NaN}

        RECURSIVE PdfDictsOver(_)
        PdfDictsOver(ks) ==
            IF ks = <<>> THEN {<<>>}
            ELSE {<<[key |-> Head(ks), val |-> v]>> \o d :
                    v \in SamplePdfInfo(Head(ks)), d \in PdfDictsOver(Tail(ks))}

        RECURSIVE ExcelDictsOver(_)
        ExcelDictsOver(ks) ==
            IF ks = <<>> THEN {<<>>}
            ELSE {<<[key |-> Head(ks), val |-> v]>> \o d :
                    v \in SampleExcelValue(Head(ks)), d \in ExcelDictsOver(Tail(ks))}
    IN
    {[pdf |-> p, excel |-> x, tol |-> DefaultTolerance] :
        p \in UNION {PdfDictsOver(ks) : ks \in KeySeqs},
        x \in UNION {ExcelDictsOver(ks) : ks \in KeySeqs}}

InitCompare ==
    /\ pc = "compare"
    /\ \E inp \in NumericInputs \cup StructuralInputs :
         /\ pdf_metric_dict = inp.pdf
         /\ excel_metric_dict = inp.excel
         /\ relative_tolerance = inp.tol
    /\ results = <<>>
    /\ calls = <<>>
    /\ filename = <<>>
    /\ period = NoPeriod
    /\ pdf_file = <<>>
    /\ sentences = <<>>
    /\ extracted_data = <<>>
    /\ pdf_metrics = <<>>
    /\ excel_file = <<>>
    /\ summary_df = <<>>
    /\ header_row = NoIndex
    /\ text_idx = NoIndex
    /\ column_index = NoIndex
    /\ selected_rows = <<>>
    /\ norm_call = None
    /\ norm_ret = None

\* main.py 169: results = compare_values(pdf_metric_dict, excel_metric_dict)
CompareValues ==
    /\ pc = "compare"
    /\ IF compare_raises(pdf_metric_dict, excel_metric_dict)
       THEN /\ pc' = "error"
            /\ UNCHANGED <<results, calls>>
       ELSE /\ pc' = "done"
            /\ results' = compare_values(pdf_metric_dict, excel_metric_dict, relative_tolerance)
            /\ calls' = AllCalls(pdf_metric_dict, 1, excel_metric_dict, relative_tolerance)
    /\ UNCHANGED <<pdf_metric_dict, excel_metric_dict, relative_tolerance>>
    /\ UNCHANGED <<resolverVars, pdfVars, excelVars>>
    /\ UNCHANGED normVars

NextCompare == CompareValues

SpecCompare == InitCompare /\ [][NextCompare]_vars

----------------------------------------------------------------------------
(* Claims about compare_values                                             *)

ResultIdx == 1..Len(results)

InBoth(k) == k \in DictKeys(pdf_metric_dict) /\ k \in DictKeys(excel_metric_dict)

\* the status of the (first) record of metric k
StatusOf(k) == results[CHOOSE i \in ResultIdx : results[i][1] = k][4]

\* the calls of the history made for metric k, in order
CallsOf(k) == SelectSeq(calls, LAMBDA c : c.metric = k)

\* C1: compare_values emits exactly one record per metric of the union of
\* the keys of the two mappings and none for any other metric; a metric of
\* one mapping only has the missing side None and the status No Match.
C1_UnionOfKeys ==
    pc = "done" =>
        /\ \A k \in DictKeys(pdf_metric_dict) \cup DictKeys(excel_metric_dict) :
             Cardinality({i \in ResultIdx : results[i][1] = k}) = 1
        /\ \A i \in ResultIdx :
             /\ results[i][1] \in DictKeys(pdf_metric_dict) \cup DictKeys(excel_metric_dict)
             /\ results[i][1] \notin DictKeys(excel_metric_dict) =>
                  /\ results[i][2] # None
                  /\ results[i][3] = None
                  /\ results[i][4] = "No Match"
             /\ results[i][1] \notin DictKeys(pdf_metric_dict) =>
                  /\ results[i][2] = None
                  /\ results[i][3] # None
                  /\ results[i][4] = "No Match"

C1_Witness ==
    /\ pc = "done"
    /\ \E k \in DictKeys(pdf_metric_dict) : k \notin DictKeys(excel_metric_dict)
    /\ \E k \in DictKeys(excel_metric_dict) : k \notin DictKeys(pdf_metric_dict)
    /\ \E k \in MetricSet : InBoth(k)

\* the tabular value a percent metric is compared with
PercentTarget(x) == IF FGt(x, One) THEN FScale(x, -2) ELSE x

CET1Example ==
    /\ pdf_metric_dict = <<[key |-> "CET1 Capital Ratio",
                            val |-> [value |-> Dec(136, -1), unit |-> "%"]]>>
    /\ excel_metric_dict = <<[key |-> "CET1 Capital Ratio", val |-> Dec(136, -3)]>>
    /\ relative_tolerance = Dec(5, -2)

\* C2: a metric of both mappings with narrative unit percent is Match iff
\* narrative/100 is within the tolerance of t (t = tabular/100 when
\* tabular > 1, else tabular), and exactly one comparison is made for it (no
\* x1000 or /1000 retry); 13.6% against 0.136 at 0.05 gives the record
\* (CET1 Capital Ratio, "13.6%", "0.136", Match).
C2_PercentRule ==
    pc = "done" =>
        /\ \A i \in 1..Len(pdf_metric_dict) :
             LET k == pdf_metric_dict[i].key
                 info == pdf_metric_dict[i].val
             IN  (InBoth(k) /\ info.unit = "%") =>
                   /\ (StatusOf(k) = "Match") <=>
                        is_within_tolerance(FScale(info.value, -2),
                                            PercentTarget(DictGet(excel_metric_dict, k)),
                                            relative_tolerance)
                   /\ StatusOf(k) \in {"Match", "No Match"}
                   /\ Len(CallsOf(k)) = 1
        /\ CET1Example =>
             results = << <<"CET1 Capital Ratio", Str(<<"1", "3", ".", "6", "%">>),
                            Str(<<"0", ".", "1", "3", "6">>), "Match">> >>

C2_Witness == pc = "done" /\ CET1Example /\ StatusOf("CET1 Capital Ratio") = "Match"

\* the three comparisons of a non-percent metric
W1(n, t) == is_within_tolerance(n, t, relative_tolerance)
W2(n, t) == is_within_tolerance(n, FScale(t, 3), relative_tolerance)
W3(n, t) == is_within_tolerance(n, FScale(t, -3), relative_tolerance)

ArgsOf(cs) == [j \in 1..Len(cs) |-> <<cs[j].a, cs[j].b>>]

\* C3: for a metric of both mappings with a non-percent unit the comparisons
\* narrative vs tabular, vs tabular x 1000, vs tabular / 1000 are made in
\* that order up to the first one within tolerance; Match iff one of them
\* is within tolerance.  3200 against 3.2 matches at the x1000 step only,
\* 3200 against 3200000 at the /1000 step only.
C3_ScaleRetryOrder ==
    pc = "done" =>
        \A i \in 1..Len(pdf_metric_dict) :
          LET k == pdf_metric_dict[i].key
              info == pdf_metric_dict[i].val
              n == info.value
              t == DictGet(excel_metric_dict, k)
              tried == <<<<n, t>>, <<n, FScale(t, 3)>>, <<n, FScale(t, -3)>>>>
          IN  (InBoth(k) /\ info.unit # "%") =>
                /\ ArgsOf(CallsOf(k)) =
                     SubSeq(tried, 1, IF W1(n, t) THEN 1 ELSE IF W2(n, t) THEN 2 ELSE 3)
                /\ (StatusOf(k) = "Match") <=> (W1(n, t) \/ W2(n, t) \/ W3(n, t))
                /\ (StatusOf(k) = "No Match") <=> ~(W1(n, t) \/ W2(n, t) \/ W3(n, t))
                /\ (n = Dec(32, 2) /\ t = Dec(32, -1) /\ relative_tolerance = DefaultTolerance) =>
                     /\ [j \in 1..Len(CallsOf(k)) |-> CallsOf(k)[j].ret] = <<FALSE, TRUE>>
                     /\ ~W3(n, t)
                     /\ StatusOf(k) = "Match"
                /\ (n = Dec(32, 2) /\ t = Dec(32, 5) /\ relative_tolerance = DefaultTolerance) =>
                     /\ [j \in 1..Len(CallsOf(k)) |-> CallsOf(k)[j].ret] = <<FALSE, FALSE, TRUE>>
                     /\ StatusOf(k) = "Match"

C3_Witness ==
    /\ pc = "done"
    /\ relative_tolerance = DefaultTolerance
    /\ \E i \in 1..Len(pdf_metric_dict) :
         /\ pdf_metric_dict[i].val = [value |-> Dec(32, 2), unit |-> ""]
         /\ InBoth(pdf_metric_dict[i].key)
         /\ DictGet(excel_metric_dict, pdf_metric_dict[i].key) = Dec(32, 5)
         /\ Len(CallsOf(pdf_metric_dict[i].key)) = 3
         /\ StatusOf(pdf_metric_dict[i].key) = "Match"

\* |x| of a float
FAbs(x) == [x EXCEPT !.m = Abs(@)]

\* |a/b - 1| <= tol for floats a and b # 0, by the sign of a/b:
\* a/b > 0 : 1 - tol <= |a|/|b| <= 1 + tol;  a/b <= 0 : 1 + |a|/|b| <= tol
RelativeErrorWithin(a, b, tol) ==
    IF (a.m > 0 /\ b.m > 0) \/ (a.m < 0 /\ b.m < 0)
    THEN /\ FLeq(FMul(FOneMinus(tol), FAbs(b)), FAbs(a))
         /\ FLeq(FAbs(a), FMul(FOnePlus(tol), FAbs(b)))
    ELSE FLeq(FAbs(a), FMul(FMul(FOneMinus(tol), Dec(-1, 0)), FAbs(b)))

\* C4: the tolerance predicate holds, for b # 0, iff |a/b - 1| <= tol, both
\* bounds included; for b = 0 iff a = 0.  Hence 0% against 0 is Match.
C4_TolerancePredicate ==
    pc = "done" =>
        /\ \A j \in 1..Len(calls) :
             (IsNum(calls[j].a) /\ IsNum(calls[j].b)) =>
               (calls[j].ret <=>
                  IF calls[j].b.m = 0 THEN calls[j].a.m = 0
                  ELSE RelativeErrorWithin(calls[j].a, calls[j].b, relative_tolerance))
        /\ \A i \in 1..Len(pdf_metric_dict) :
             LET k == pdf_metric_dict[i].key
             IN  (/\ InBoth(k)
                  /\ pdf_metric_dict[i].val = [value |-> Zero, unit |-> "%"]
                  /\ DictGet(excel_metric_dict, k) = Zero) => StatusOf(k) = "Match"

C4_Witness ==
    /\ pc = "done"
    /\ relative_tolerance = DefaultTolerance
    /\ \E j \in 1..Len(calls) :
         /\ IsNum(calls[j].b) /\ calls[j].b.m # 0
         /\ calls[j].a = FMul(FOnePlus(relative_tolerance), calls[j].b)
         /\ calls[j].ret

----------------------------------------------------------------------------
(* utils.py: find_quarter_year_from_filename                               *)

UpperChars == <<"A", "B", "C", "D", "E", "F", "G", "H", "I", "J", "K", "L", "M",
                "N", "O", "P", "Q", "R", "S", "T", "U", "V", "W", "X", "Y", "Z">>
LowerChars == <<"a", "b", "c", "d", "e", "f", "g", "h", "i", "j", "k", "l", "m",
                "n", "o", "p", "q", "r", "s", "t", "u", "v", "w", "x", "y", "z">>

UpperSet == Range(UpperChars)
LowerSet == Range(LowerChars)

\* str.lower() of one character; re.IGNORECASE compares Lower(c)
Lower(c) == IF c \in UpperSet
            THEN LowerChars[CHOOSE i \in 1..26 : UpperChars[i] = c] ELSE c

\* the character at position i, lowercased; "" outside the string
At(f, i) == IF i \in 1..Len(f) THEN Lower(f[i]) ELSE ""

\* [1-4]
IsQuarterDigit(c) == c \in {"1", "2", "3", "4"}

\* \d{n} at position i
DigitsAt(f, i, n) == \A k \in 0..(n - 1) : IsDigit(At(f, i + k))

\* the literal w (lowercase) at position i, ignoring case
LiteralAt(f, i, w) == \A k \in 1..Len(w) : At(f, i + k - 1) = w[k]

\* an optional character of the class cs at position i: the position after it
SkipOpt(f, i, cs) == IF At(f, i) \in cs THEN i + 1 ELSE i

\* position i when it holds a quarter digit, else 0
QuarterDigitAt(f, i) == IF IsQuarterDigit(At(f, i)) THEN i ELSE 0

\* [qQ][tT]?[rR]?[-_]?(?P<q>[1-4]) at position p: the position of the
\* quarter digit, 0 when it does not match (the optional classes are
\* disjoint, so the greedy choice is the only one)
QTail(f, p) ==
    IF At(f, p) # "q" THEN 0
    ELSE QuarterDigitAt(f, SkipOpt(f, SkipOpt(f, SkipOpt(f, p + 1, {"t"}), {"r"}), {"-", "_"}))

\* \s* from position i: the first position that holds no whitespace
RECURSIVE SkipSpaces(_, _)
SkipSpaces(f, i) == IF At(f, i) = " " THEN SkipSpaces(f, i + 1) ELSE i

\* (?:quarter|qtr|q)\s*(?P<q>[1-4]) at position p: the position of the
\* quarter digit, 0 when it does not match (the alternatives are tried in
\* order; at most one of them can be followed by \s*[1-4])
QWordTail(f, p) ==
    IF LiteralAt(f, p, <<"q", "u", "a", "r", "t", "e", "r">>)
       /\ QuarterDigitAt(f, SkipSpaces(f, p + 7)) # 0 THEN SkipSpaces(f, p + 7)
    ELSE IF LiteralAt(f, p, <<"q", "t", "r">>)
       /\ QuarterDigitAt(f, SkipSpaces(f, p + 3)) # 0 THEN SkipSpaces(f, p + 3)
    ELSE IF At(f, p) = "q" THEN QuarterDigitAt(f, SkipSpaces(f, p + 1))
    ELSE 0

NoMatch == [matched |-> FALSE, q |-> "", year |-> <<>>, year2 |-> <<>>]

\* a match object: the groups q and year or year2 (<<>>: no such group);
\* s = 0 stands for "no start position matches"
MatchQY(f, s, d, y) ==
    IF s = 0 THEN NoMatch
    ELSE [matched |-> TRUE, q |-> f[d], year |-> SubSeq(f, y, y + 3), year2 |-> <<>>]
MatchQY2(f, s, d, y) ==
    IF s = 0 THEN NoMatch
    ELSE [matched |-> TRUE, q |-> f[d], year |-> <<>>, year2 |-> SubSeq(f, y, y + 1)]

Pos(f) == 1..Len(f)

\* the leftmost of a set of positions (0: none)
First(S) == IF S = {} THEN 0 ELSE Min(S)

\* the first 4-digit run at or after position i (0: none)
Year4From(f, i) == First({y \in Pos(f) : y >= i /\ DigitsAt(f, y, 4)})

\* the first position p >= i where the quarter tail matches (0: none)
QTailFrom(f, i) == First({p \in Pos(f) : p >= i /\ QTail(f, p) # 0})

\* utils.py 53: (?P<year>\d{4}).*?[qQ][tT]?[rR]?[-_]?(?P<q>[1-4])
Pattern1(f) ==
    LET
        Pattern1At(s) == MatchQY(f, s, QTail(f, QTailFrom(f, s + 4)), s)
    IN
    Pattern1At(First({s \in Pos(f) : DigitsAt(f, s, 4) /\ QTailFrom(f, s + 4) # 0}))

\* the first 4-digit run at or after i that a quarter tail follows (0: none)
YearThenQFrom(f, i) ==
    First({y \in Pos(f) : y >= i /\ DigitsAt(f, y, 4) /\ QTailFrom(f, y + 4) # 0})

\* utils.py 56: [fF][yY].*?(?P<year>\d{4}).*?[qQ][tT]?[rR]?[-_]?(?P<q>[1-4])
Pattern2(f) ==
    LET
        Pattern2At(s, y) == MatchQY(f, s, QTail(f, QTailFrom(f, y + 4)), y)

        Pattern2From(s) == Pattern2At(s, YearThenQFrom(f, s + 2))
    IN
    Pattern2From(First({s \in Pos(f) : LiteralAt(f, s, <<"f", "y">>)
                                          /\ YearThenQFrom(f, s + 2) # 0}))

Pattern3At(f, s, d) == MatchQY(f, s, d, Year4From(f, d + 1))

\* utils.py 59: [qQ][tT]?[rR]?[-_]?(?P<q>[1-4]).*?(?P<year>\d{4})
Pattern3(f) ==
    LET
        Pattern3From(s) == Pattern3At(f, s, QTail(f, s))
    IN
    Pattern3From(First({s \in Pos(f) : QTail(f, s) # 0 /\ Year4From(f, QTail(f, s) + 1) # 0}))

\* utils.py 62: (?:quarter|qtr|q)\s*(?P<q>[1-4]).*?(?P<year>\d{4})
Pattern4(f) ==
    LET
        Pattern4From(s) == Pattern3At(f, s, QWordTail(f, s))
    IN
    Pattern4From(First({s \in Pos(f) : QWordTail(f, s) # 0
                                          /\ Year4From(f, QWordTail(f, s) + 1) # 0}))

\* the first quarter digit at or after position i (0: none)
QDigitFrom(f, i) == First({d \in Pos(f) : d >= i /\ IsQuarterDigit(At(f, d))})

\* the first q at or after i that a quarter digit follows (0: none)
QThenDigitFrom(f, i) ==
    First({p \in Pos(f) : p >= i /\ At(f, p) = "q" /\ QDigitFrom(f, p + 1) # 0})

\* utils.py 65: (?P<year>\d{4}).*?[qQ].*?(?P<q>[1-4])
Pattern5(f) ==
    LET
        Pattern5At(s) == MatchQY(f, s, QDigitFrom(f, QThenDigitFrom(f, s + 4) + 1), s)
    IN
    Pattern5At(First({s \in Pos(f) : DigitsAt(f, s, 4) /\ QThenDigitFrom(f, s + 4) # 0}))

\* the first quarter digit at or after i that a 4-digit run follows (0: none)
QDigitThenYearFrom(f, i) ==
    First({d \in Pos(f) : d >= i /\ IsQuarterDigit(At(f, d)) /\ Year4From(f, d + 1) # 0})

\* utils.py 68: [qQ].*?(?P<q>[1-4]).*?(?P<year>\d{4})
Pattern6(f) ==
    LET
        Pattern6From(s) == Pattern3At(f, s, QDigitThenYearFrom(f, s + 1))
    IN
    Pattern6From(First({s \in Pos(f) : At(f, s) = "q" /\ QDigitThenYearFrom(f, s + 1) # 0}))

\* the first 2-digit run at or after position i (0: none)
Year2From(f, i) == First({y \in Pos(f) : y >= i /\ DigitsAt(f, y, 2)})

\* utils.py 71: (?P<q>[1-4])[qQ][tT][rR].*?(?P<year2>\d{2})
Pattern7(f) ==
    LET
        Pattern7At(s) == MatchQY2(f, s, s, Year2From(f, s + 4))
    IN
    Pattern7At(First({s \in Pos(f) : /\ IsQuarterDigit(At(f, s))
                                        /\ LiteralAt(f, s + 1, <<"q", "t", "r">>)
                                        /\ Year2From(f, s + 4) # 0}))

\* utils.py 74: (?P<year>\d{4})[qQ][tT][rR].*?(?P<q>[1-4])
Pattern8(f) ==
    LET
        Pattern8At(s) == MatchQY(f, s, QDigitFrom(f, s + 7), s)
    IN
    Pattern8At(First({s \in Pos(f) : /\ DigitsAt(f, s, 4)
                                        /\ LiteralAt(f, s + 4, <<"q", "t", "r">>)
                                        /\ QDigitFrom(f, s + 7) # 0}))

\* utils.py 77: (?P<q>[1-4])[qQ](?P<year2>\d{2})
Pattern9(f) ==
    LET
        Pattern9At(s) == MatchQY2(f, s, s, s + 2)
    IN
    Pattern9At(First({s \in Pos(f) : /\ IsQuarterDigit(At(f, s))
                                        /\ At(f, s + 1) = "q"
                                        /\ DigitsAt(f, s + 2, 2)}))

NumPatterns == 9

\* utils.py 51-78, 81-82: regex.search(filename) of patterns[idx - 1]
PatternSearch(idx, f) ==
    CASE idx = 1 -> Pattern1(f)
      [] idx = 2 -> Pattern2(f)
      [] idx = 3 -> Pattern3(f)
      [] idx = 4 -> Pattern4(f)
      [] idx = 5 -> Pattern5(f)
      [] idx = 6 -> Pattern6(f)
      [] idx = 7 -> Pattern7(f)
      [] idx = 8 -> Pattern8(f)
      [] idx = 9 -> Pattern9(f)

YearOf_raw(m) ==
    IF m.year2 # <<>> THEN Str(m.year2)
    ELSE IF m.year # <<>> THEN Str(m.year)
    ELSE None

\* utils.py 87-95: the year of a match
YearOf(m) ==
    IF m.year2 # <<>> THEN Str(<<"2", "0">> \o m.year2)
    ELSE IF m.year # <<>> THEN Str(m.year)
    ELSE None

\* utils.py 83-103: the value returned for a match of pattern idx, NoPeriod
\* when the loop goes on to the next pattern
Returned(m, idx) ==
    LET
        \* utils.py 84-85
        QuarterOf == Str(<<"Q", m.q>>)
    IN
    IF m.matched /\ IsQuarterDigit(m.q)
    THEN [quarter |-> QuarterOf, year |-> YearOf(m), idx |-> idx]
    ELSE NoPeriod

\* r when it is a result, else rest
OrElse(r, rest) == IF r.idx # 0 THEN r ELSE rest

RECURSIVE ResolveFrom_last(_, _)
ResolveFrom_last(f, idx) ==
    IF idx > NumPatterns THEN NoPeriod
    ELSE OrElse(ResolveFrom_last(f, idx + 1), Returned(PatternSearch(idx, f), idx))

\* utils.py 80-107: the loop over the patterns from idx on
RECURSIVE ResolveFrom(_, _)
ResolveFrom(f, idx) ==
    IF idx > NumPatterns THEN NoPeriod
    ELSE OrElse(Returned(PatternSearch(idx, f), idx), ResolveFrom(f, idx + 1))

\* utils.py 43-107
find_quarter_year_from_filename(f) == ResolveFrom(f, 1)

----------------------------------------------------------------------------
(* find_quarter_year_from_filename as a function: its inputs               *)

MaxTokens == 3

\* the examples of spec.md 8.5 and of the comments of utils.py 52-76
File_2024Q3_report_pdf == <<"2", "0", "2", "4", "Q", "3", "_", "r", "e", "p", "o", "r", "t", ".", "p", "d", "f">>
File_3Q24_summary_xlsx == <<"3", "Q", "2", "4", "_", "s", "u", "m", "m", "a", "r", "y", ".", "x", "l", "s", "x">>
File_FY2024_Q3_pdf == <<"F", "Y", "2", "0", "2", "4", "-", "Q", "3", ".", "p", "d", "f">>

Filenames ==
    LET
        NamedFiles == {File_2024Q3_report_pdf, File_3Q24_summary_xlsx, File_FY2024_Q3_pdf,
                       <<"3", "Q", "2", "0", "2", "4">>,
                       <<"2", "0", "2", "4", "p", "r", "-", "q", "t", "r", "3", "r", "s", "l", "t">>,
                       <<"Q", "u", "a", "r", "t", "e", "r", " ", "3", " ", "2", "0", "2", "4">>,
                       <<"q", "3", "-", "2", "0", "2", "4">>,
                       <<"3", "Q", "T", "R", "2", "4">>,
                       <<"2", "0", "2", "4", "Q", "T", "R", "3">>,
                       <<"r", "e", "p", "o", "r", "t", ".", "p", "d", "f">>,
                       <<"2", "0", "2", "4", "_", "q", "u", "a", "r", "t", "e", "r", "3">>,
                       <<"Q", "_", "x", "3", "_", "2", "0", "2", "4">>,
                       <<"Q", "5", "x", "3", "Q", "2", "4">>}

        FileTokens == {<<"2", "0", "2", "4">>,
                       <<"2", "4">>,
                       <<"3">>,
                       <<"5">>,
                       <<"Q">>,
                       <<"q", "t", "r">>,
                       <<"F", "Y">>,
                       <<"-">>,
                       <<" ">>,
                       <<"q", "u", "a", "r", "t", "e", "r">>,
                       <<"x">>}

        \* the concatenations of at most n tokens
        RECURSIVE TokenNames(_)
        TokenNames(n) ==
            IF n = 0 THEN {<<>>}
            ELSE TokenNames(n - 1) \cup {t \o w : t \in FileTokens, w \in TokenNames(n - 1)}
    IN
    NamedFiles \cup TokenNames(MaxTokens)

InitResolver ==
    /\ pc = "resolve"
    /\ filename \in Filenames
    /\ period = NoPeriod
    /\ pdf_metric_dict = <<>>
    /\ excel_metric_dict = <<>>
    /\ relative_tolerance = DefaultTolerance
    /\ results = <<>>
    /\ calls = <<>>
    /\ pdf_file = <<>>
    /\ sentences = <<>>
    /\ extracted_data = <<>>
    /\ pdf_metrics = <<>>
    /\ excel_file = <<>>
    /\ summary_df = <<>>
    /\ header_row = NoIndex
    /\ text_idx = NoIndex
    /\ column_index = NoIndex
    /\ selected_rows = <<>>
    /\ norm_call = None
    /\ norm_ret = None

\* a call of utils.find_quarter_year_from_filename(filename)
Resolve ==
    /\ pc = "resolve"
    /\ period' = find_quarter_year_from_filename(filename)
    /\ pc' = "resolved"
    /\ UNCHANGED filename
    /\ UNCHANGED <<compareVars, pdfVars, excelVars>>
    /\ UNCHANGED normVars

NextResolver == Resolve

SpecResolver == InitResolver /\ [][NextResolver]_vars

----------------------------------------------------------------------------
(* Claims about find_quarter_year_from_filename                            *)

\* the patterns that match the file name
Matching(f) == {i \in 1..NumPatterns : PatternSearch(i, f).matched}

QuarterNames == {Str(<<"Q", d>>) : d \in {"1", "2", "3", "4"}}

\* the (quarter, year) pair returned
Pair(r) == <<r.quarter, r.year>>

\* C5: the result is the capture of the lowest-numbered pattern that
\* matches (with a quarter digit in 1..4); a later pattern's capture is
\* returned only when every earlier pattern fails; (None, None) is returned
\* only when no pattern matches.
C5_FirstPatternWins ==
    pc = "resolved" =>
        /\ \A i \in Matching(filename) : PatternSearch(i, filename).q \in {"1", "2", "3", "4"}
        /\ IF Matching(filename) = {}
           THEN period = NoPeriod
           ELSE /\ period.idx = Min(Matching(filename))
                /\ period.quarter = Str(<<"Q", PatternSearch(period.idx, filename).q>>)
                /\ period.year =
                     Str(IF PatternSearch(period.idx, filename).year2 # <<>>
                         THEN <<"2", "0">> \o PatternSearch(period.idx, filename).year2
                         ELSE PatternSearch(period.idx, filename).year)
        /\ \A j \in 1..NumPatterns : j < period.idx => ~PatternSearch(j, filename).matched
        /\ (Pair(period) = <<None, None>>) => Matching(filename) = {}

\* a later pattern matches too, with another capture, and does not win
C5_Witness ==
    /\ pc = "resolved"
    /\ period.idx = 1
    /\ \E j \in Matching(filename) :
         /\ j > period.idx
         /\ Pair(Returned(PatternSearch(j, filename), j)) # Pair(period)

ThreeExamples == {File_2024Q3_report_pdf, File_3Q24_summary_xlsx, File_FY2024_Q3_pdf}

Q3_2024 == <<Str(<<"Q", "3">>), Str(<<"2", "0", "2", "4">>)>>

\* C6: "2024Q3_report.pdf", "3Q24_summary.xlsx" and "FY2024-Q3.pdf" each
\* resolve to (Q3, 2024), by three different patterns of the list (the
\* pattern that resolves one of them resolves neither of the other two).
C6_ThreeDifferentPatterns ==
    (pc = "resolved" /\ filename \in ThreeExamples) =>
        /\ Pair(period) = Q3_2024
        /\ \A g \in ThreeExamples \ {filename} :
             find_quarter_year_from_filename(g).idx # period.idx

\* C7: the result is (None, None) or a quarter of Q1..Q4 with a year of
\* exactly four digits, never one component without the other; a year from
\* a two-digit capture YY is 20YY.
C7_ResultShape ==
    pc = "resolved" =>
        /\ \/ Pair(period) = <<None, None>>
           \/ /\ period.quarter \in QuarterNames
              /\ IsStr(period.year)
              /\ Len(period.year.s) = 4
              /\ \A i \in 1..4 : IsDigit(period.year.s[i])
        /\ (period.idx # 0 /\ PatternSearch(period.idx, filename).year2 # <<>>) =>
              /\ Len(PatternSearch(period.idx, filename).year2) = 2
              /\ period.year = Str(<<"2", "0">> \o PatternSearch(period.idx, filename).year2)

C7_Witness ==
    /\ pc = "resolved"
    /\ period.idx = 9
    /\ Pair(period) = Q3_2024

----------------------------------------------------------------------------
(* Text helpers of the two readers                                         *)

\* \w
WordChars == LowerSet \cup UpperSet \cup DigitSet \cup {"_"}

IsWordChar(c) == c \in WordChars

\* \s (the texts of the model hold no other whitespace than the space)
IsSpace(c) == c = " "

\* str.lower() and str.upper()
LowerStr(s) == [i \in 1..Len(s) |-> Lower(s[i])]
UpperStr(s) ==
    LET
        \* str.upper() of one character
        Upper(c) == IF c \in LowerSet
                    THEN UpperChars[CHOOSE i \in 1..26 : LowerChars[i] = c] ELSE c
    IN
    [i \in 1..Len(s) |-> Upper(s[i])]

\* str.strip()
Strip(s) ==
    LET
        RECURSIVE LStrip(_)
        LStrip(t) == IF t # <<>> /\ IsSpace(Head(t)) THEN LStrip(Tail(t)) ELSE t

        RECURSIVE RStrip(_)
        RStrip(t) == IF t # <<>> /\ IsSpace(t[Len(t)]) THEN RStrip(SubSeq(t, 1, Len(t) - 1)) ELSE t
    IN
    LStrip(RStrip(s))

\* sub in text
Contains(text, sub) ==
    \E i \in 0..(Len(text) - Len(sub)) : SubSeq(text, i + 1, i + Len(sub)) = sub

\* str.replace(c, '') for a character c
Without(s, c) == SelectSeq(s, LAMBDA x : x # c)

\* \b at position i (between the characters i - 1 and i)
WordBoundary(f, i) == IsWordChar(At(f, i - 1)) # IsWordChar(At(f, i))

\* digits with at most one ".", and one digit at least
IsDecimalLiteral(t) ==
    /\ \A i \in 1..Len(t) : IsDigit(t[i]) \/ t[i] = "."
    /\ Cardinality({i \in 1..Len(t) : t[i] = "."}) <= 1
    /\ \E i \in 1..Len(t) : IsDigit(t[i])

\* float(t) of an unsigned text without exponent; None stands for ValueError
ParseFloat(t) ==
    LET
        DigitVal(c) == (CHOOSE i \in 1..10 : DigitChars[i] = c) - 1

        \* the number written by a string of digits
        RECURSIVE DigitsValue(_)
        DigitsValue(ds) ==
            IF ds = <<>> THEN 0
            ELSE 10 * DigitsValue(SubSeq(ds, 1, Len(ds) - 1)) + DigitVal(ds[Len(ds)])

        \* the number of digits after the "."
        FracDigits ==
            IF "." \in Range(t) THEN Len(t) - (CHOOSE i \in 1..Len(t) : t[i] = ".") ELSE 0
    IN
    IF IsDecimalLiteral(t) THEN Dec(DigitsValue(Without(t, ".")), -FracDigits) ELSE None

\* the characters of the name of a metric
MetricText(metric) ==
    CASE metric = "CET1 Capital Ratio" -> <<"C", "E", "T", "1", " ", "C", "a", "p", "i", "t", "a", "l", " ", "R", "a", "t", "i", "o">>
      [] metric = "Tangible book value per share" -> <<"T", "a", "n", "g", "i", "b", "l", "e", " ", "b", "o", "o", "k", " ", "v", "a", "l", "u", "e", " ", "p", "e", "r", " ", "s", "h", "a", "r", "e">>
      [] metric = "Book value per share" -> <<"B", "o", "o", "k", " ", "v", "a", "l", "u", "e", " ", "p", "e", "r", " ", "s", "h", "a", "r", "e">>
      [] metric = "Net income" -> <<"N", "e", "t", " ", "i", "n", "c", "o", "m", "e">>
      [] metric = "Revenues" -> <<"R", "e", "v", "e", "n", "u", "e", "s">>

----------------------------------------------------------------------------
(* pdf_reader_no_llm.py: sentences, patterns, extract_metrics              *)

\* pdf_reader_no_llm.py 41
remove_newlines_regex(sentence) ==
    LET
        \* each character of s with the character before it
        WithPrevious == [i \in 1..Len(sentence) |-> <<sentence[i], IF i = 1 THEN "" ELSE sentence[i - 1]>>]

        \* re.sub(r'\s+', ' ', sentence): of a run of spaces the first is kept
        KeptOf(pairs) == SelectSeq(pairs, LAMBDA p : ~(IsSpace(p[1]) /\ IsSpace(p[2])))

        FirstOf(pairs) == [i \in 1..Len(pairs) |-> pairs[i][1]]

        CollapseSpaces == FirstOf(KeptOf(WithPrevious))
    IN
    Strip(CollapseSpaces)

\* pdf_reader_no_llm.py 33, 41: one sentence as extract_metrics receives it
CleanSentence(raw) == remove_newlines_regex(LowerStr(Strip(raw)))

\* pdf_reader_no_llm.py 53-69: the literal phrase of the pattern of a metric
PatternPhrase(metric) == LowerStr(MetricText(metric))

\* pdf_reader_no_llm.py 54-70
value_type(metric) ==
    CASE metric = "CET1 Capital Ratio" -> "percentage"
      [] metric = "Tangible book value per share" -> "dollar"
      [] metric = "Book value per share" -> "dollar"
      [] metric = "Net income" -> "millions_billions"
      [] metric = "Revenues" -> "millions_billions"

\* \s*(?:of\s*)?[:\-]?\s* from position p: the position after it (the
\* classes are disjoint, so the greedy choice is the only one)
AfterSeparator(f, p) ==
    LET
        \* (?:of\s*)? at position i
        SkipOf(i) == IF LiteralAt(f, i, <<"o", "f">>) THEN SkipSpaces(f, i + 2) ELSE i
    IN
    SkipSpaces(f, SkipOpt(f, SkipOf(SkipSpaces(f, p)), {":", "-"}))

\* \s*(?:of\s*)?[:\-]?\s*\$?\s* from position p
AfterDollar(f, p) == SkipSpaces(f, SkipOpt(f, AfterSeparator(f, p), {"$"}))

\* the position of the capture group of the pattern of a metric whose
\* phrase ends before position p
ValueStart(metric, f, p) ==
    IF value_type(metric) = "percentage" THEN AfterSeparator(f, p) ELSE AfterDollar(f, p)

\* \d* from position i
RECURSIVE SkipDigits(_, _)
SkipDigits(f, i) == IF IsDigit(At(f, i)) THEN SkipDigits(f, i + 1) ELSE i

\* \d{1,3}(?:,\d{3})*(?:\.\d+)? at position v: the position after the
\* match, 0 when there is none (nothing follows the group in the pattern,
\* so the greedy match is the one found)
NumberEnd(f, v) ==
    LET
        \* \d{0,n} from position i
        RECURSIVE SkipDigitsUpTo(_, _)
        SkipDigitsUpTo(i, n) ==
            IF n > 0 /\ IsDigit(At(f, i)) THEN SkipDigitsUpTo(i + 1, n - 1) ELSE i

        \* (?:,\d{3})* from position i
        RECURSIVE SkipGroups(_)
        SkipGroups(i) ==
            IF At(f, i) = "," /\ DigitsAt(f, i + 1, 3) THEN SkipGroups(i + 4) ELSE i

        \* (?:\.\d+)? from position i
        SkipFraction(i) ==
            IF At(f, i) = "." /\ IsDigit(At(f, i + 1)) THEN SkipDigits(f, i + 1) ELSE i
    IN
    IF IsDigit(At(f, v)) THEN SkipFraction(SkipGroups(SkipDigitsUpTo(v, 3))) ELSE 0

\* the capture group of the pattern of a metric at position v: the
\* position after it, 0 when it does not match
CaptureEnd(metric, f, v) ==
    LET
        \* the "%" that must close the capture of the percentage pattern
        PercentEndAt(e) == IF At(f, e) = "%" THEN e + 1 ELSE 0

        \* \d+\.?\d*% at position v: the position after the match, 0 when there
        \* is none (a shorter run of digits is followed by a digit or a ".", never
        \* by "%", so backtracking finds nothing else)
        PercentEnd ==
            IF IsDigit(At(f, v))
            THEN PercentEndAt(SkipDigits(f, SkipOpt(f, SkipDigits(f, v), {"."})))
            ELSE 0

        \* [MmBb]? after a number that ends before position e
        SuffixEnd(e) == IF e = 0 THEN 0 ELSE SkipOpt(f, e, {"m", "b"})
    IN
    CASE value_type(metric) = "percentage" -> PercentEnd
      [] value_type(metric) = "dollar" -> NumberEnd(f, v)
      [] value_type(metric) = "millions_billions" -> SuffixEnd(NumberEnd(f, v))

Lookbehind_none(metric, f, s) == TRUE

\* pdf_reader_no_llm.py 61: (?<!tangible ) in front of the pattern of
\* "Book value per share", and of no other pattern
Lookbehind(metric, f, s) ==
    metric = "Book value per share" => ~LiteralAt(f, s - 9, <<"t", "a", "n", "g", "i", "b", "l", "e", " ">>)

\* a natural number beyond the range of the integers of the checker: its
\* digits in base 2^15, the least significant first, without leading zeros
RECURSIVE BigOf(_)
BigOf(n) == IF n = 0 THEN <<>> ELSE <<n % 32768>> \o BigOf(n \div 32768)

\* x * k for a big x and 0 <= k < 2^15
BigMulSmall(x, k) ==
    LET
        RECURSIVE MulFrom(_, _)
        MulFrom(i, carry) ==
            IF i > Len(x) THEN BigOf(carry)
            ELSE <<(x[i] * k + carry) % 32768>> \o MulFrom(i + 1, (x[i] * k + carry) \div 32768)
    IN
    IF k = 0 THEN <<>> ELSE MulFrom(1, 0)

\* the quotient and the remainder of a big x by 0 < d < 2^15
BigDivSmall(x, d) ==
    LET
        \* the remainder of the digits from the i-th on
        RECURSIVE RemFrom(_)
        RemFrom(i) == IF i > Len(x) THEN 0 ELSE (RemFrom(i + 1) * 32768 + x[i]) % d

        Quotient == [i \in 1..Len(x) |-> (RemFrom(i + 1) * 32768 + x[i]) \div d] \o <<>>

        \* without the leading zeros
        Trim(q) == SubSeq(q, 1, Cardinality({i \in 1..Len(q) : \E j \in i..Len(q) : q[j] # 0}))
    IN
    [q |-> Trim(Quotient), r |-> RemFrom(1)]

\* x * y for two big numbers
BigMul(x, y) ==
    LET
        RECURSIVE AddFrom(_, _, _, _)
        AddFrom(a, b, i, carry) ==
            IF i > Len(a) /\ i > Len(b) THEN BigOf(carry)
            ELSE <<((IF i <= Len(a) THEN a[i] ELSE 0) + (IF i <= Len(b) THEN b[i] ELSE 0) + carry) % 32768>>
                 \o AddFrom(a, b, i + 1,
                            ((IF i <= Len(a) THEN a[i] ELSE 0) + (IF i <= Len(b) THEN b[i] ELSE 0) + carry) \div 32768)

        \* x * (the digits of y from the i-th on)
        RECURSIVE MulFrom(_)
        MulFrom(i) ==
            IF i > Len(y) THEN <<>>
            ELSE IF i = Len(y) THEN BigMulSmall(x, y[i])
            ELSE AddFrom(BigMulSmall(x, y[i]), <<0>> \o MulFrom(i + 1), 1, 0)
    IN
    IF x = <<>> THEN <<>> ELSE MulFrom(1)

\* the double nearest to q * 2^e, ties to the even mantissa, for a big q
\* that is the integer part of a number with a nonzero rest iff sticky: the
\* mantissa m of 53 bits and the exponent e of the double m * 2^e
RECURSIVE RoundDouble(_, _, _)
RoundDouble(q, sticky, e) ==
    LET
        \* the number of bits of a digit
        Bits(d) == CHOOSE b \in 1..15 : 2^(b - 1) <= d /\ d < 2^b

        BitLen(x) == 15 * (Len(x) - 1) + Bits(x[Len(x)])

        \* x + 1
        RECURSIVE Succ(_)
        Succ(x) ==
            IF x = <<>> THEN <<1>>
            ELSE IF x[1] < 32767 THEN <<x[1] + 1>> \o Tail(x)
            ELSE <<0>> \o Succ(Tail(x))

        \* the mantissa, rounded up when up holds
        Rounded(half, up, exp) ==
            IF ~up THEN [kind |-> "double", m |-> half, e |-> exp]
            ELSE IF BitLen(Succ(half)) = 54
            THEN [kind |-> "double", m |-> BigDivSmall(Succ(half), 2).q, e |-> exp + 1]
            ELSE [kind |-> "double", m |-> Succ(half), e |-> exp]

        \* q1 holds 54 bits: the mantissa and the rounding bit
        FromBits(q1, rest, exp) ==
            Rounded(BigDivSmall(q1, 2).q,
                    q1[1] % 2 = 1 /\ (rest \/ (q1[1] \div 2) % 2 = 1),
                    exp)

        \* the digits of x from the (n + 1)-th on, divided by 2^b
        Shifted(n, b, exp) ==
            FromBits(BigDivSmall(SubSeq(q, n + 1, Len(q)), 2^b).q,
                     \/ sticky
                     \/ \E i \in 1..n : q[i] # 0
                     \/ BigDivSmall(SubSeq(q, n + 1, Len(q)), 2^b).r # 0,
                     exp)

        ShiftBy(s) == Shifted(s \div 15, s % 15, e + s + 1)
    IN
    IF q = <<>> THEN [kind |-> "double", m |-> <<>>, e |-> 0]
    ELSE IF BitLen(q) < 55 THEN RoundDouble(<<0, 0, 0, 0>> \o q, sticky, e - 60)
    ELSE ShiftBy(BitLen(q) - 54)

\* float(text) for the decimal literal that the model writes Dec(m, e)
float_of(x) ==
    LET
        \* n * 2^90 / 10^k, with the rest of the divisions so far
        RECURSIVE DivPow10(_, _, _)
        DivPow10(n, rest, k) ==
            IF k = 0 THEN RoundDouble(n, rest, -90)
            ELSE DivPow10(BigDivSmall(n, 10).q, rest \/ BigDivSmall(n, 10).r # 0, k - 1)

        RECURSIVE MulPow10(_, _)
        MulPow10(n, k) == IF k = 0 THEN RoundDouble(n, FALSE, 0) ELSE MulPow10(BigMulSmall(n, 10), k - 1)
    IN
    IF ~IsNum(x) THEN x
    ELSE IF x.m = 0 THEN RoundDouble(<<>>, FALSE, 0)
    ELSE IF x.e >= 0 THEN MulPow10(BigOf(x.m), x.e)
    ELSE DivPow10(<<0, 0, 0, 0, 0, 0>> \o BigOf(x.m), FALSE, -x.e)

\* a * b on doubles
float_mul(a, b) ==
    IF a.kind # "double" \/ b.kind # "double" THEN None
    ELSE RoundDouble(BigMul(a.m, b.m), FALSE, a.e + b.e)

\* pdf_reader_no_llm.py 91-134, for a captured text: the pair
\* (numeric_value, unit); the unit None is written "None"
normalize_value(value, vt) ==
    LET
        \* the last character of a text ("" for the empty text)
        LastChar == IF value = <<>> THEN "" ELSE value[Len(value)]

        \* float(text) * 10^k, None when float raises ValueError
        ParseScaled(t, k) == IF IsDecimalLiteral(t) THEN FScale(ParseFloat(t), k) ELSE None

        \* pdf_reader_no_llm.py 120, 128: x * 1e-3 on doubles; the float x / 1000
        \* when the product rounds to it, and otherwise the double of the
        \* product itself, which is next to it
        TimesMilli(x) ==
            IF float_mul(float_of(x), float_of(Dec(1, -3))) = float_of(FScale(x, -3))
            THEN FScale(x, -3)
            ELSE float_mul(float_of(x), float_of(Dec(1, -3)))

        \* float(text) * 1e-3, None when float raises ValueError
        ParseMilli(t) == IF IsDecimalLiteral(t) THEN TimesMilli(ParseFloat(t)) ELSE None
    IN
    CASE vt = "percentage" ->
           [value |-> ParseFloat(Without(value, "%")), unit |-> "%"]
      [] vt = "dollar" ->
           [value |-> ParseFloat(Without(Without(value, "$"), ",")), unit |-> "$"]
      [] vt = "millions_billions" ->
           IF LastChar \in {"M", "m"}
           THEN [value |-> ParseMilli(Without(Without(SubSeq(value, 1, Len(value) - 1),
                                                      "$"), ",")),
                 unit |-> "M"]
           ELSE IF LastChar \in {"B", "b"}
           THEN [value |-> ParseScaled(Without(Without(SubSeq(value, 1, Len(value) - 1),
                                                       "$"), ","), 0),
                 unit |-> "B"]
           ELSE [value |-> ParseScaled(Without(Without(value, "$"), ","), 0),
                 unit |-> "None"]

standardize_quarter_raw(quarter_str) ==
    IF ~IsStr(quarter_str) THEN None
    ELSE IF quarter_str.s = <<>> THEN None
    ELSE Str(UpperStr(quarter_str.s))

\* pdf_reader_no_llm.py 8-25
standardize_quarter(quarter_str) ==
    LET
        \* pdf_reader_no_llm.py 15-25, on the lower-case text
        StandardizeLower(l) ==
            IF Contains(l, <<"q", "1">>) \/ Contains(l, <<"1">>) THEN Str(<<"Q", "1">>)
            ELSE IF Contains(l, <<"q", "2">>) \/ Contains(l, <<"2">>) THEN Str(<<"Q", "2">>)
            ELSE IF Contains(l, <<"q", "3">>) \/ Contains(l, <<"3">>) THEN Str(<<"Q", "3">>)
            ELSE IF Contains(l, <<"q", "4">>) \/ Contains(l, <<"4">>) THEN Str(<<"Q", "4">>)
            ELSE None
    IN
    IF ~IsStr(quarter_str) THEN None
    ELSE IF quarter_str.s = <<>> THEN None
    ELSE StandardizeLower(LowerStr(quarter_str.s))

\* pdf_reader_no_llm.py 137-183
RECURSIVE extract_metrics(_)
extract_metrics(sents) ==
    LET
        \* pdf_reader_no_llm.py 53-69: the pattern of a metric matches at position s
        MatchesAt(metric, f, s) ==
            /\ Lookbehind(metric, f, s)
            /\ WordBoundary(f, s)
            /\ LiteralAt(f, s, PatternPhrase(metric))
            /\ WordBoundary(f, s + Len(PatternPhrase(metric)))
            /\ CaptureEnd(metric, f, ValueStart(metric, f, s + Len(PatternPhrase(metric)))) # 0

        \* pdf_reader_no_llm.py 153: pattern.search(sentence), the start of the
        \* leftmost match (0: no match)
        MetricSearch(metric, f) == First({s \in Pos(f) : MatchesAt(metric, f, s)})

        \* the text of the capture group that starts at position v
        CaptureFrom(metric, f, v) == SubSeq(f, v, CaptureEnd(metric, f, v) - 1)

        \* pdf_reader_no_llm.py 155: match.group(1) of the match that starts at s
        raw_value(metric, f, s) ==
            CaptureFrom(metric, f, ValueStart(metric, f, s + Len(PatternPhrase(metric))))

        Ordinals == {<<"1", "s", "t">>, <<"2", "n", "d">>, <<"3", "r", "d">>, <<"4", "t", "h">>}

        \* pdf_reader_no_llm.py 85: the length of group 1 of the quarter pattern
        \* at position s, 0 when it does not match there
        \*   (Q[1-4]|[1-4]Q|(?:1st|2nd|3rd|4th) quarter)
        QuarterLenAt(f, s) ==
            IF At(f, s) = "q" /\ IsQuarterDigit(At(f, s + 1)) THEN 2
            ELSE IF IsQuarterDigit(At(f, s)) /\ At(f, s + 1) = "q" THEN 2
            ELSE IF \E o \in Ordinals : LiteralAt(f, s, o \o <<" ", "q", "u", "a", "r", "t", "e", "r">>) THEN 11
            ELSE 0

        \* group 1 of the match that starts at position s (None: no match)
        QuarterGroup(f, s) == IF s = 0 THEN None ELSE Str(SubSeq(f, s, s + QuarterLenAt(f, s) - 1))

        \* pdf_reader_no_llm.py 163-164
        quarter_match(f) == QuarterGroup(f, First({q \in Pos(f) : QuarterLenAt(f, q) # 0}))

        \* pdf_reader_no_llm.py 159-181: the observation appended for a match
        \* with the normalized value nv, <<>> when the code continues
        Emit(metric, sentence, nv, quarter) ==
            IF nv.value = None THEN <<>>
            ELSE IF standardize_quarter(quarter) = None /\ quarter # None THEN <<>>
            ELSE <<[metric |-> metric, value |-> nv.value, unit |-> nv.unit,
                    quarter |-> standardize_quarter(quarter), sentence |-> sentence]>>

        \* pdf_reader_no_llm.py 153-181, for the match that starts at s
        ObservationAt(metric, sentence, s) ==
            IF s = 0 THEN <<>>
            ELSE Emit(metric, sentence,
                      normalize_value(raw_value(metric, sentence, s), value_type(metric)),
                      quarter_match(sentence))

        \* pdf_reader_no_llm.py 151-181: the metrics from the k-th on, in the
        \* order of metrics_info
        RECURSIVE SentenceObservations(_, _)
        SentenceObservations(sentence, k) ==
            IF k > Len(metrics) THEN <<>>
            ELSE ObservationAt(metrics[k], sentence, MetricSearch(metrics[k], sentence))
                 \o SentenceObservations(sentence, k + 1)
    IN
    IF sents = <<>> THEN <<>>
    ELSE SentenceObservations(Head(sents), 1) \o extract_metrics(Tail(sents))

----------------------------------------------------------------------------
(* pdf_reader_no_llm.py: get_metrics_values_from_pdf                       *)

\* pdf_reader_no_llm.py 191
base_filename(pdf_path) ==
    LET
        \* the index of the last c of s (0: none)
        LastIndexOf(s, c) ==
            IF c \in Range(s)
            THEN CHOOSE i \in 1..Len(s) : s[i] = c /\ \A j \in (i + 1)..Len(s) : s[j] # c
            ELSE 0

        \* os.path.basename
        basename == SubSeq(pdf_path, LastIndexOf(pdf_path, "/") + 1, Len(pdf_path))

        \* os.path.splitext(name)[0] of a name without directory: the extension
        \* starts at the last dot, unless only dots precede it
        SplitExtAt(name, dot) ==
            IF dot = 0 \/ \A j \in 1..(dot - 1) : name[j] = "." THEN name
            ELSE SubSeq(name, 1, dot - 1)

        splitext_root(name) == SplitExtAt(name, LastIndexOf(name, "."))
    IN
    splitext_root(basename)

NoQuarterOrYear_unchecked(r) == FALSE

\* pdf_reader_no_llm.py 193, excel_reader_no_llm.py 106: not quarter or not year
NoQuarterOrYear(r) ==
    \/ ~IsStr(r.quarter) \/ ~IsStr(r.year)
    \/ r.quarter.s = <<>> \/ r.year.s = <<>>

\* pdf_reader_no_llm.py 238: the row is kept by the quarter filter
Survives(o, quarter) == o.quarter = quarter \/ o.quarter = None

\* pdf_reader_no_llm.py 244-290 (pandas: when no group is left at all, the
\* selection is an empty frame and the left merge still lists every metric)
metrics_list(filtered) ==
    LET
        \* pdf_reader_no_llm.py 244: the (value, unit) groups of a metric; groupby
        \* drops the rows whose key holds a null, that is the unit None
        GroupKeys(metric) ==
            {[value |-> filtered[i].value, unit |-> filtered[i].unit] :
               i \in {j \in 1..Len(filtered) : /\ filtered[j].metric = metric
                                                /\ filtered[j].unit # "None"}}

        \* pdf_reader_no_llm.py 244: size() of a group
        Counts(metric, k) ==
            Cardinality({i \in 1..Len(filtered) : /\ filtered[i].metric = metric
                                                  /\ filtered[i].value = k.value
                                                  /\ filtered[i].unit = k.unit})

        \* the order of str on the units
        UnitOrder == <<"$", "%", "B", "M">>

        UnitLeq(u, v) ==
            (CHOOSE i \in 1..Len(UnitOrder) : UnitOrder[i] = u)
                <= (CHOOSE i \in 1..Len(UnitOrder) : UnitOrder[i] = v)

        \* pdf_reader_no_llm.py 244: groupby sorts the groups by value, then unit
        KeyLeq(g, h) == IF g.value = h.value THEN UnitLeq(g.unit, h.unit) ELSE FLeq(g.value, h.value)

        \* pdf_reader_no_llm.py 247-250: g is listed before h once the groups are
        \* sorted by counts, descending, with a stable sort
        ListedBefore(metric, g, h) ==
            \/ Counts(metric, g) > Counts(metric, h)
            \/ /\ Counts(metric, g) = Counts(metric, h)
               /\ KeyLeq(g, h)

        \* pdf_reader_no_llm.py 250: the first group of a metric
        FirstGroup(metric, groups) ==
            CHOOSE g \in groups : \A h \in groups : ListedBefore(metric, g, h)

        \* pdf_reader_no_llm.py 281-290: the record of a metric; the left merge on
        \* the priority list keeps a metric without a group, with value NaN and the
        \* unit str(nan)
        FinalRecord(metric, groups) ==
            IF groups = {} THEN [metric |-> metric, value |-> NaN, unit |-> "nan"]
            ELSE [metric |-> metric,
                  value |-> FirstGroup(metric, groups).value,
                  unit |-> FirstGroup(metric, groups).unit]
    IN
    [k \in 1..Len(metrics) |-> FinalRecord(metrics[k], GroupKeys(metrics[k]))]

\* pdf_reader_no_llm.py 186-291, for the sentences of the text of the file
get_metrics_values_from_pdf(pdf_path, sents) ==
    LET
        df_filtered(extracted, quarter) == SelectSeq(extracted, LAMBDA o : Survives(o, quarter))

        \* pdf_reader_no_llm.py 230-291: from the extracted data on
        FromExtracted(extracted, quarter) ==
            IF extracted = <<>> THEN <<>> ELSE metrics_list(df_filtered(extracted, quarter))

        \* pdf_reader_no_llm.py 193-228: the extracted data ({} is returned
        \* before the extraction when the period is not resolved or the text empty)
        ExtractedFor(r) ==
            IF NoQuarterOrYear(r) THEN <<>> ELSE extract_metrics(sents)

        \* pdf_reader_no_llm.py 230-291, with the extracted data, the name given
        \* to the resolver and the period it returned kept beside the list that
        \* is returned
        RunFrom(name, r, extracted) ==
            [filename |-> name, period |-> r, extracted_data |-> extracted,
             metrics_list |-> FromExtracted(extracted, r.quarter)]

        \* pdf_reader_no_llm.py 193-291, for the period r of the file name
        PdfRun(name, r) == RunFrom(name, r, ExtractedFor(r))

        \* pdf_reader_no_llm.py 192-291, for the name given to the resolver
        PdfRunNamed(name) == PdfRun(name, find_quarter_year_from_filename(name))
    IN
    PdfRunNamed(base_filename(pdf_path))

\* main.py 166
PdfDictOf(pdf_metrics_list) ==
    [k \in 1..Len(pdf_metrics_list) |->
       [key |-> pdf_metrics_list[k].metric,
        val |-> [value |-> pdf_metrics_list[k].value, unit |-> pdf_metrics_list[k].unit]]]

----------------------------------------------------------------------------
(* utils.py: containment, edit distance, trailing numbers                  *)

\* utils.py 7-11
is_loosely_contained_nltk_no_punctuation(substr, text) ==
    LET
        \* re.sub(r'[^\w\s]', '', text)
        RemovePunctuation(t) == SelectSeq(t, LAMBDA c : IsWordChar(c) \/ IsSpace(c))
    IN
    Contains(RemovePunctuation(text), RemovePunctuation(substr))

\* rapidfuzz.distance.Levenshtein.distance, with unit weights
Levenshtein_distance(s, t) ==
    LET
        Min2(a, b) == IF a <= b THEN a ELSE b

        \* the cell of column k of the row of the character c, before the
        \* insertions along the row are counted (prev is the row above)
        LevBase(prev, c, k) ==
            IF k = 0 THEN prev[1] + 1
            ELSE Min2(prev[k + 1] + 1, prev[k] + (IF c = t[k] THEN 0 ELSE 1))

        \* the least element of a set of distances, all at most bound
        Least(S, bound) == CHOOSE d \in 0..bound : d \in S /\ \A e \in 0..(d - 1) : e \notin S

        \* the row of the edit-distance table of the character c: the cell of
        \* column j is the least of base[k] + (j - k) over the columns k <= j
        LevRowOf(base, bound) ==
            [j \in 1..Len(base) |-> Least({base[k] + (j - k) : k \in 1..j}, bound)]

        LevRow(prev, c) ==
            LevRowOf([k \in 1..(Len(t) + 1) |-> LevBase(prev, c, k - 1)] \o <<>>, Len(prev) + Len(t)) \o <<>>

        \* the last row of the table, from the row prev of the first i - 1
        \* characters of s (each row is computed before the next one is begun)
        RECURSIVE LevFrom(_, _)
        LevFrom(prev, i) ==
            IF i > Len(s) THEN prev
            ELSE CHOOSE last \in {LevFrom(row, i + 1) : row \in {LevRow(prev, s[i])}} : TRUE
    IN
    LevFrom([j \in 1..(Len(t) + 1) |-> j - 1] \o <<>>, 1)[Len(t) + 1]

\* a score 100.0 * num / den, kept as a fraction
Score(num, den) == [num |-> num, den |-> den]

\* excel_reader_no_llm.py 73: best_score = -1
MinusOne == Score(-1, 100)

ScoreGt_or_equal(s, t) == s.num * t.den >= t.num * s.den

\* s > t on scores (the fractions of the model have denominators below
\* 100, so the order of the floats is the order of the fractions)
ScoreGt(s, t) == s.num * t.den > t.num * s.den

\* utils.py 14-19
get_edit_distance_score(str1, str2) ==
    LET
        Max(a, b) == IF a >= b THEN a ELSE b

        \* utils.py 16-19, for the distance dist
        ScoreOf(dist, max_len) ==
            IF max_len = 0 THEN (IF dist = 0 THEN Score(1, 1) ELSE Score(0, 1))
            ELSE Score(max_len - dist, max_len)
    IN
    ScoreOf(Levenshtein_distance(str1, str2), Max(Len(str1), Len(str2)))

\* " ".join(parts)
RECURSIVE Join(_)
Join(parts) ==
    IF parts = <<>> THEN <<>>
    ELSE IF Len(parts) = 1 THEN parts[1]
    ELSE parts[1] \o <<" ">> \o Join(Tail(parts))

\* utils.py 22-40
strip_trailing_numbers(text) ==
    LET
        RECURSIVE Split(_)

        \* the length of the first word of a text that starts with one
        WordLen(s) == Min({i \in 1..(Len(s) + 1) : i = Len(s) + 1 \/ IsSpace(s[i])}) - 1

        \* the first word of s, of length n, and the words after it
        SplitAt(s, n) == <<SubSeq(s, 1, n)>> \o Split(SubSeq(s, n + 1, Len(s)))

        \* str.split()
        Split(s) ==
            IF s = <<>> THEN <<>>
            ELSE IF IsSpace(s[1]) THEN Split(Tail(s))
            ELSE SplitAt(s, WordLen(s))

        \* a token without its sign
        Unsigned(token) == IF Head(token) \in {"+", "-"} THEN Tail(token) ELSE token

        \* utils.py 28-33: float(token) does not raise (the tokens of the model
        \* hold no exponent and no underscore)
        is_numeric_token(token) ==
            \/ IsDecimalLiteral(Unsigned(token))
            \/ LowerStr(Unsigned(token)) \in {<<"n", "a", "n">>, <<"i", "n", "f">>, <<"i", "n", "f", "i", "n", "i", "t", "y">>}

        \* utils.py 36-37
        RECURSIVE PopNumeric(_)
        PopNumeric(parts) ==
            IF parts # <<>> /\ is_numeric_token(parts[Len(parts)])
            THEN PopNumeric(SubSeq(parts, 1, Len(parts) - 1))
            ELSE parts
    IN
    Join(PopNumeric(Split(text)))

----------------------------------------------------------------------------
(* excel_reader_no_llm.py                                                  *)

\* str(cell) of a cell: a str, a float or NaN (the empty cell)
CellStr(cell) == IF IsStr(cell) THEN cell.s ELSE FloatStr(cell)

\* excel_reader_no_llm.py 19: the number of cells of the row whose text
\* contains \dQ|Q\d, ignoring case
q_count(row) ==
    LET
        HasQuarterMark(s) ==
            \E i \in 1..Len(s) :
               \/ IsDigit(At(s, i)) /\ At(s, i + 1) = "q"
               \/ At(s, i) = "q" /\ IsDigit(At(s, i + 1))
    IN
    Cardinality({c \in 1..Len(row) : HasQuarterMark(CellStr(row[c]))})

\* excel_reader_no_llm.py 26: the number of cells of the row whose text is
\* a full match of \d{4}
year_count(row) ==
    LET
        IsYearText(s) == Len(s) = 4 /\ \A i \in 1..4 : IsDigit(s[i])
    IN
    Cardinality({c \in 1..Len(row) : IsYearText(CellStr(row[c]))})

detect_header_rows_any_pair(df) ==
    LET
        \* the first of the rows S, with its successor
        PairFrom(S) ==
            IF S = {} THEN [header_row_with_q |-> NoIndex, header_row_with_years |-> NoIndex]
            ELSE [header_row_with_q |-> Min(S), header_row_with_years |-> Min(S) + 1]
    IN
    PairFrom({i \in 0..(Len(df) - 2) : q_count(df[i + 1]) > 1 /\ year_count(df[i + 2]) > 1})

\* excel_reader_no_llm.py 10-31
detect_header_rows(df) ==
    LET
        \* first element of a set of indexes, NoIndex when it is empty
        FirstIndex(S) == IF S = {} THEN NoIndex ELSE Min(S)

        \* excel_reader_no_llm.py 25-29: the row after the quarter row, when it
        \* holds more than one year
        YearsRowAfter(q_row) ==
            IF q_row = NoIndex \/ q_row + 2 > Len(df) THEN NoIndex
            ELSE IF year_count(df[q_row + 2]) > 1 THEN q_row + 1
            ELSE NoIndex

        RowsFrom(q_row) ==
            [header_row_with_q |-> q_row, header_row_with_years |-> YearsRowAfter(q_row)]
    IN
    \* excel_reader_no_llm.py 17-22: the first row with more than one quarter mark
    RowsFrom(FirstIndex({i \in 0..(Len(df) - 1) : q_count(df[i + 1]) > 1}))

ColumnMatches_exact(q, y, quarter, year) ==
    /\ UpperStr(Strip(q)) = UpperStr(quarter)
    /\ Strip(y) = year

\* excel_reader_no_llm.py 46-48
ColumnMatches(q, y, quarter, year) ==
    /\ Range(UpperStr(Strip(q))) = Range(UpperStr(quarter))
    /\ Strip(y) = year

\* excel_reader_no_llm.py 5-52; quarter and year are texts
find_column_index_for_quarter_year(df, quarter, year) ==
    LET
        \* first element of a set of indexes, NoIndex when it is empty
        FirstIndex(S) == IF S = {} THEN NoIndex ELSE Min(S)

        \* excel_reader_no_llm.py 41-42: fillna('').astype(str) of a cell
        FilledStr(cell) == IF IsNaN(cell) THEN <<>> ELSE CellStr(cell)

        \* excel_reader_no_llm.py 45-52: the first matching column of the two
        \* header rows (NoIndex: none)
        MatchingColumn(quarter_row, year_row) ==
            FirstIndex({c \in 0..(Len(quarter_row) - 1) :
                          ColumnMatches(FilledStr(quarter_row[c + 1]), FilledStr(year_row[c + 1]),
                                        quarter, year)})

        \* excel_reader_no_llm.py 37-52, for the header rows found
        LocateIn(q_row, y_row) ==
            IF q_row = NoIndex \/ y_row = NoIndex
            THEN [header_row |-> NoIndex, column_index |-> NoIndex]
            ELSE [header_row |-> y_row,
                  column_index |-> MatchingColumn(df[q_row + 1], df[y_row + 1])]

        \* excel_reader_no_llm.py 34-52
        LocateRows(rows) == LocateIn(rows.header_row_with_q, rows.header_row_with_years)
    IN
    LocateRows(detect_header_rows(df))

\* excel_reader_no_llm.py 82, 85
normalized_row_text(row) ==
    LET
        \* excel_reader_no_llm.py 82: str(cell) for cell in row if pd.notna(cell)
        RECURSIVE CellTexts(_)
        CellTexts(cells) ==
            IF cells = <<>> THEN <<>>
            ELSE (IF IsNaN(Head(cells)) THEN <<>> ELSE <<CellStr(Head(cells))>>) \o CellTexts(Tail(cells))
    IN
    LowerStr(Strip(Join(CellTexts(row))))

\* excel_reader_no_llm.py 55-100
get_metrics_from_df(df, start_idx, col_idx) ==
    LET
        \* no row seen yet for a metric
        NoBest == [score |-> MinusOne, value |-> None, row |-> NoIndex]

        \* excel_reader_no_llm.py 92-94, for the score of the row
        ConsiderScore(row, idx, score, best) ==
            IF ScoreGt(score, best.score)
            THEN [score |-> score, value |-> row[col_idx + 1], row |-> idx]
            ELSE best

        \* excel_reader_no_llm.py 88-94, for the text of the row
        ConsiderText(row, idx, text, metric_text, best) ==
            IF is_loosely_contained_nltk_no_punctuation(metric_text, text)
            THEN ConsiderScore(row, idx, get_edit_distance_score(metric_text, strip_trailing_numbers(text)), best)
            ELSE best

        \* excel_reader_no_llm.py 77-94: one row of the scan for one metric
        Consider(row, idx, metric_text, best) ==
            IF idx < start_idx THEN best
            ELSE IF normalized_row_text(row) = <<>> THEN best
            ELSE ConsiderText(row, idx, normalized_row_text(row), metric_text, best)

        \* excel_reader_no_llm.py 73-94: the scan of the rows from the i-th on
        \* (the row is dealt with first, then the rows after it)
        RECURSIVE ScanRows(_, _, _)
        ScanRows(i, metric_text, best) ==
            IF i > Len(df) THEN best
            ELSE CHOOSE last \in {ScanRows(i + 1, metric_text, b) :
                                    b \in {Consider(df[i], i - 1, metric_text, best)}} :
                    TRUE

        \* excel_reader_no_llm.py 70-94: the best row of a metric
        BestRow(metric) ==
            ScanRows(1, LowerStr(MetricText(metric)), NoBest)

        \* excel_reader_no_llm.py 97-98
        EntryOf(metric, best) ==
            IF ScoreGt(best.score, MinusOne)
            THEN <<[key |-> metric, val |-> best.value, row |-> best.row]>>
            ELSE <<>>

        \* excel_reader_no_llm.py 70-98: the entries of the metrics from the k-th
        \* on, each with the index of the row it was read from
        RECURSIVE BestRows(_)
        BestRows(k) ==
            IF k > Len(metrics) THEN <<>>
            ELSE EntryOf(metrics[k], BestRow(metrics[k]))
                 \o BestRows(k + 1)
    IN
    BestRows(1)

\* the dict that is returned, and the rows its values were read from
MetricToVal(entries) == [k \in 1..Len(entries) |-> [key |-> entries[k].key, val |-> entries[k].val]]
RowsOf(entries) == [k \in 1..Len(entries) |-> [key |-> entries[k].key, row |-> entries[k].row]]

\* excel_reader_no_llm.py 103-115, for the grid of the sheet "Summary":
\* the entries of the dict that is returned, beside the result of the locator
get_metrics_values_from_excel(excel_path, df) ==
    LET
        \* a row or column index is a natural number; None is written NoIndex
        Falsy(x) == x = NoIndex \/ x = 0

        \* excel_reader_no_llm.py 111-115, for the result of the locator
        ExcelFrom(r, loc) ==
            IF Falsy(loc.header_row) \/ Falsy(loc.column_index)
            THEN [filename |-> excel_path, period |-> r, entries |-> <<>>,
                  header_row |-> loc.header_row, column_index |-> loc.column_index]
            ELSE [filename |-> excel_path, period |-> r,
                  entries |-> get_metrics_from_df(df, loc.header_row + 1, loc.column_index),
                  header_row |-> loc.header_row, column_index |-> loc.column_index]

        \* excel_reader_no_llm.py 106-115, for the period r of the path (the
        \* path as it is, is the name given to the resolver)
        ExcelRun(r) ==
            IF NoQuarterOrYear(r)
            THEN [filename |-> excel_path, period |-> r, entries |-> <<>>,
                  header_row |-> NoIndex, column_index |-> NoIndex]
            ELSE ExcelFrom(r, find_column_index_for_quarter_year(df, r.quarter.s, r.year.s))
    IN
    ExcelRun(find_quarter_year_from_filename(excel_path))

----------------------------------------------------------------------------
(* normalize_value as a function: its inputs                              *)

NormalizeInputs ==
    LET
        Prefixes == {<<>>, <<"$">>}

        \* amounts with and without thousands separators
        IntegerTexts == {<<"0">>, <<"2">>, <<"3">>, <<"7">>, <<"7", "0", "0">>, <<"2", ",", "3", "0", "0">>, <<"3", ",", "2", "0", "0">>, <<"2", "0", ",", "3", "0", "0">>, <<"1", ",", "9", "0", "0">>}

        FractionTexts == {<<>>, <<".", "7">>, <<".", "3">>, <<".", "2">>, <<".", "5">>}

        Suffixes == {<<>>, <<"M">>, <<"m">>, <<"B">>, <<"b">>, <<"%">>}

        ValueTypes == {"percentage", "dollar", "millions_billions"}
    IN
    {[value |-> p \o i \o f \o x, value_type |-> vt] :
        p \in Prefixes, i \in IntegerTexts, f \in FractionTexts, x \in Suffixes, vt \in ValueTypes}

InitNormalize ==
    /\ pc = "normalize"
    /\ norm_call \in NormalizeInputs
    /\ norm_ret = None
    /\ pdf_metric_dict = <<>>
    /\ excel_metric_dict = <<>>
    /\ relative_tolerance = DefaultTolerance
    /\ results = <<>>
    /\ calls = <<>>
    /\ filename = <<>>
    /\ period = NoPeriod
    /\ pdf_file = <<>>
    /\ sentences = <<>>
    /\ extracted_data = <<>>
    /\ pdf_metrics = <<>>
    /\ excel_file = <<>>
    /\ summary_df = <<>>
    /\ header_row = NoIndex
    /\ text_idx = NoIndex
    /\ column_index = NoIndex
    /\ selected_rows = <<>>

\* pdf_reader_no_llm.py 156: a call of normalize_value
Normalize ==
    /\ pc = "normalize"
    /\ norm_ret' = normalize_value(norm_call.value, norm_call.value_type)
    /\ pc' = "normalized"
    /\ UNCHANGED norm_call
    /\ UNCHANGED <<compareVars, resolverVars, pdfVars, excelVars>>

NextNormalize == Normalize

SpecNormalize == InitNormalize /\ [][NextNormalize]_vars

----------------------------------------------------------------------------
(* extract_metrics as a function: its inputs                               *)

MaxPhrases == 4

SentenceInputs ==
    LET
        \* the pieces the sentences are built from
        Phrases == {<<"b", "o", "o", "k", " ", "v", "a", "l", "u", "e", " ", "p", "e", "r", " ", "s", "h", "a", "r", "e", " ", "o", "f", " ", "$", "5", "5", ".", "1", "0", " ">>,
                    <<"b", "o", "o", "k", " ", "v", "a", "l", "u", "e", " ", "p", "e", "r", " ", "s", "h", "a", "r", "e", " ", "6", "1", ".", "2", "0", " ">>,
                    <<"b", "o", "o", "k", " ", "v", "a", "l", "u", "e", " ", "p", "e", "r", " ", "s", "h", "a", "r", "e", " ">>,
                    <<"t", "a", "n", "g", "i", "b", "l", "e", " ">>,
                    <<"i", "n", "t", "a", "n", "g", "i", "b", "l", "e", " ">>,
                    <<"n", "o", "n", "-">>,
                    <<"i", "n", " ", "2", "Q", "2", "4", " ">>}

        \* the concatenations of at most n pieces
        RECURSIVE PhraseTexts(_)
        PhraseTexts(n) ==
            IF n = 0 THEN {<<>>}
            ELSE PhraseTexts(n - 1) \cup {t \o w : t \in Phrases, w \in PhraseTexts(n - 1)}
    IN
    {CleanSentence(raw) : raw \in PhraseTexts(MaxPhrases)}

InitExtract ==
    /\ pc = "extract"
    /\ \E s \in SentenceInputs : sentences = <<s>>
    /\ extracted_data = <<>>
    /\ pdf_file = File_2024Q3_report_pdf
    /\ pdf_metrics = <<>>
    /\ pdf_metric_dict = <<>>
    /\ excel_metric_dict = <<>>
    /\ relative_tolerance = DefaultTolerance
    /\ results = <<>>
    /\ calls = <<>>
    /\ filename = <<>>
    /\ period = NoPeriod
    /\ excel_file = <<>>
    /\ summary_df = <<>>
    /\ header_row = NoIndex
    /\ text_idx = NoIndex
    /\ column_index = NoIndex
    /\ selected_rows = <<>>
    /\ norm_call = None
    /\ norm_ret = None

\* pdf_reader_no_llm.py 228: a call of extract_metrics
ExtractMetrics ==
    /\ pc = "extract"
    /\ extracted_data' = extract_metrics(sentences)
    /\ pc' = "extracted"
    /\ UNCHANGED <<pdf_file, sentences, pdf_metrics>>
    /\ UNCHANGED <<compareVars, resolverVars, excelVars>>
    /\ UNCHANGED normVars

NextExtract == ExtractMetrics

SpecExtract == InitExtract /\ [][NextExtract]_vars

----------------------------------------------------------------------------
(* extract_metrics as a function: sentences with quarter tokens            *)

MaxQuarterPhrases == 1

QuarterSentences ==
    LET
        \* pieces with a quarter token ("Q1", "2Q", "3rd quarter",
        \* "4th quarter", the "Q3" of "FAQ3") and pieces without one
        QuarterPhrases == {<<"i", "n", " ", "Q", "1", " ">>,
                           <<"2", "Q", "2", "4", " ">>,
                           <<"3", "r", "d", " ", "q", "u", "a", "r", "t", "e", "r", " ">>,
                           <<"t", "h", "e", " ", "4", "t", "h", " ", "q", "u", "a", "r", "t", "e", "r", " ", "o", "f", " ", "2", "0", "2", "4", " ">>,
                           <<"q", "u", "a", "r", "t", "e", "r", " ">>,
                           <<"Q", "5", " ">>,
                           <<"F", "A", "Q", "3", " ">>,
                           <<"1", "s", "t", " ", "h", "a", "l", "f", " ">>}

        \* pieces with a metric and a value, and one without a value
        MetricPhrases == {<<"N", "e", "t", " ", "i", "n", "c", "o", "m", "e", " ", "o", "f", " ", "$", "3", ".", "2", "B", " ">>,
                          <<"C", "E", "T", "1", " ", "C", "a", "p", "i", "t", "a", "l", " ", "R", "a", "t", "i", "o", " ", "o", "f", " ", "1", "3", ".", "6", "%", " ">>,
                          <<"R", "e", "v", "e", "n", "u", "e", "s", " ", "w", "e", "r", "e", " ", "s", "t", "r", "o", "n", "g", " ">>,
                          <<"R", "e", "v", "e", "n", "u", "e", "s", " ", "o", "f", " ", "2", "0", ",", "3", "0", "0", "M", " ", "a", "n", "d", " ", "n", "e", "t", " ", "i", "n", "c", "o", "m", "e", " ", "o", "f", " ", "3", ",", "2", "0", "0", "M", " ">>}

        \* the concatenations of at most n pieces
        RECURSIVE QuarterTexts(_)
        QuarterTexts(n) ==
            IF n = 0 THEN {<<>>}
            ELSE QuarterTexts(n - 1) \cup {t \o w : t \in QuarterPhrases, w \in QuarterTexts(n - 1)}
    IN
    {CleanSentence(pre \o body \o post) : pre \in QuarterTexts(MaxQuarterPhrases),
                                          body \in MetricPhrases,
                                          post \in QuarterTexts(1)}

InitQuarterTag ==
    /\ pc = "extract"
    /\ \E s \in QuarterSentences : sentences = <<s>>
    /\ extracted_data = <<>>
    /\ pdf_file = File_2024Q3_report_pdf
    /\ pdf_metrics = <<>>
    /\ pdf_metric_dict = <<>>
    /\ excel_metric_dict = <<>>
    /\ relative_tolerance = DefaultTolerance
    /\ results = <<>>
    /\ calls = <<>>
    /\ filename = <<>>
    /\ period = NoPeriod
    /\ excel_file = <<>>
    /\ summary_df = <<>>
    /\ header_row = NoIndex
    /\ text_idx = NoIndex
    /\ column_index = NoIndex
    /\ selected_rows = <<>>
    /\ norm_call = None
    /\ norm_ret = None

SpecQuarterTag == InitQuarterTag /\ [][NextExtract]_vars

----------------------------------------------------------------------------
(* get_metrics_from_df as a function: its inputs                           *)

MaxRows == 3

\* the grids of at most n rows
RECURSIVE Grids(_)
Grids(n) ==
    LET
        \* rows of a sheet of two columns: a label and the cell of the period
        SampleRows == {<<Str(<<"T", "a", "n", "g", "i", "b", "l", "e", " ", "b", "o", "o", "k", " ", "v", "a", "l", "u", "e", " ", "p", "e", "r", " ", "s", "h", "a", "r", "e">>), Str(<<"5", "5", ".", "1", "0">>)>>,
                       <<Str(<<"T", "a", "n", "g", "i", "b", "l", "e", " ", "b", "o", "o", "k", " ", "v", "a", "l", "u", "e", " ", "p", "e", "r", " ", "s", "h", "a", "r", "e">>), Dec(551, -1)>>,
                       <<Str(<<"B", "o", "o", "k", " ", "v", "a", "l", "u", "e", " ", "p", "e", "r", " ", "s", "h", "a", "r", "e">>), Dec(997, -1)>>,
                       <<Str(<<"N", "e", "t", " ", "i", "n", "c", "o", "m", "e">>), Dec(32, 2)>>,
                       <<Str(<<"T", "o", "t", "a", "l", " ", "r", "e", "v", "e", "n", "u", "e", "s", ",", " ", "n", "e", "t", " ", "o", "f", " ", "i", "n", "t", "e", "r", "e", "s", "t", " ", "e", "x", "p", "e", "n", "s", "e">>), Dec(203, 2)>>,
                       <<Str(<<"N", "e", "t", " ", "i", "n", "c", "o", "m", "e", " ", "(", "l", "o", "s", "s", ")">>), NaN>>,
                       <<NaN, NaN>>}
    IN
    IF n = 0 THEN {<<>>}
    ELSE Grids(n - 1) \cup {<<r>> \o g : r \in SampleRows, g \in {h \in Grids(n - 1) : Len(h) = n - 1}}

InitExcel ==
    /\ pc = "rows"
    /\ summary_df \in Grids(MaxRows)
    /\ header_row = NoIndex
    /\ text_idx \in 0..1
    /\ column_index = 1
    /\ selected_rows = <<>>
    /\ norm_call = None
    /\ norm_ret = None
    /\ excel_metric_dict = <<>>
    /\ excel_file = <<>>
    /\ pdf_file = <<>>
    /\ sentences = <<>>
    /\ extracted_data = <<>>
    /\ pdf_metrics = <<>>
    /\ pdf_metric_dict = <<>>
    /\ relative_tolerance = DefaultTolerance
    /\ results = <<>>
    /\ calls = <<>>
    /\ filename = <<>>
    /\ period = NoPeriod

\* excel_reader_no_llm.py 114: a call of get_metrics_from_df
GetMetricsFromDf ==
    /\ pc = "rows"
    /\ \E entries \in {get_metrics_from_df(summary_df, text_idx, column_index)} :
         /\ excel_metric_dict' = MetricToVal(entries)
         /\ selected_rows' = RowsOf(entries)
    /\ pc' = "rows_done"
    /\ UNCHANGED <<excel_file, summary_df, header_row, text_idx, column_index>>
    /\ UNCHANGED <<pdf_metric_dict, relative_tolerance, results, calls>>
    /\ UNCHANGED <<resolverVars, pdfVars>>
    /\ UNCHANGED normVars

NextExcel == GetMetricsFromDf

SpecExcel == InitExcel /\ [][NextExcel]_vars

----------------------------------------------------------------------------
(* find_column_index_for_quarter_year as a function: its inputs            *)

MaxHeaderRows == 3

\* the grids of at most n rows
RECURSIVE HeaderGrids(_)
HeaderGrids(n) ==
    LET
        \* rows of the head of a sheet of three columns: rows of quarters
        \* ("3Q", " q3 ", "Q33"), rows of years (" 2024 ", the float 2024.0), a
        \* row with a single year and a row with a single quarter
        HeaderRows == {<<NaN, Str(<<"2", "Q">>), Str(<<"3", "Q">>)>>,
                      <<NaN, Str(<<" ", "q", "3", " ">>), Str(<<"Q", "3">>)>>,
                      <<Str(<<"3", "Q", "2", "4">>), Str(<<"Q", "3", "3">>), Str(<<"3", "Q">>)>>,
                      <<NaN, Str(<<"2", "0", "2", "4">>), Str(<<"2", "0", "2", "4">>)>>,
                      <<Str(<<"2", "0", "2", "3">>), Str(<<" ", "2", "0", "2", "4", " ">>), Str(<<"2", "0", "2", "4">>)>>,
                      <<NaN, Str(<<"2", "0", "2", "4">>), NaN>>,
                      <<Str(<<"R", "e", "v", "e", "n", "u", "e", "s">>), Str(<<"3", "Q">>), Dec(2024, 0)>>,
                      <<NaN, Dec(2024, 0), Dec(2024, 0)>>}
    IN
    IF n = 0 THEN {<<>>}
    ELSE HeaderGrids(n - 1) \cup {<<r>> \o g : r \in HeaderRows, g \in {h \in HeaderGrids(n - 1) : Len(h) = n - 1}}

\* "3Q24_summary.xlsx" and "2Q24_summary.xlsx"
LocatorFiles == {<<"3", "Q", "2", "4", "_", "s", "u", "m", "m", "a", "r", "y", ".", "x", "l", "s", "x">>,
                 <<"2", "Q", "2", "4", "_", "s", "u", "m", "m", "a", "r", "y", ".", "x", "l", "s", "x">>}

InitLocator ==
    /\ pc = "locate"
    /\ summary_df \in HeaderGrids(MaxHeaderRows)
    /\ filename \in LocatorFiles
    /\ period = find_quarter_year_from_filename(filename)
    /\ header_row = NoIndex
    /\ text_idx = NoIndex
    /\ column_index = NoIndex
    /\ selected_rows = <<>>
    /\ norm_call = None
    /\ norm_ret = None
    /\ excel_metric_dict = <<>>
    /\ excel_file = <<>>
    /\ pdf_file = <<>>
    /\ sentences = <<>>
    /\ extracted_data = <<>>
    /\ pdf_metrics = <<>>
    /\ pdf_metric_dict = <<>>
    /\ relative_tolerance = DefaultTolerance
    /\ results = <<>>
    /\ calls = <<>>

\* excel_reader_no_llm.py 110: a call of find_column_index_for_quarter_year
Locate ==
    /\ pc = "locate"
    /\ \E loc \in {find_column_index_for_quarter_year(summary_df, period.quarter.s, period.year.s)} :
         /\ header_row' = loc.header_row
         /\ column_index' = loc.column_index
    /\ pc' = "located"
    /\ UNCHANGED <<excel_file, summary_df, text_idx, selected_rows>>
    /\ UNCHANGED compareVars
    /\ UNCHANGED <<resolverVars, pdfVars>>
    /\ UNCHANGED normVars

NextLocator == Locate

SpecLocator == InitLocator /\ [][NextLocator]_vars

----------------------------------------------------------------------------
(* main.py: main, with the deterministic readers                           *)

MaxSentences == 3

\* the texts of at most n sentences
RECURSIVE SentenceLists(_)
SentenceLists(n) ==
    LET
        \* sentences of the text of a report
        SampleSentences == {<<"C", "E", "T", "1", " ", "C", "a", "p", "i", "t", "a", "l", " ", "R", "a", "t", "i", "o", " ", "o", "f", " ", "1", "3", ".", "6", "%">>,
                            <<"I", "n", " ", "3", "Q", "2", "4", " ", "t", "a", "n", "g", "i", "b", "l", "e", " ", "b", "o", "o", "k", " ", "v", "a", "l", "u", "e", " ", "p", "e", "r", " ", "s", "h", "a", "r", "e", " ", "o", "f", " ", "$", "5", "5", ".", "1", "0", " ", "a", "n", "d", " ", "b", "o", "o", "k", " ", "v", "a", "l", "u", "e", " ", "p", "e", "r", " ", "s", "h", "a", "r", "e", " ", "o", "f", " ", "$", "9", "9", ".", "7", "0">>,
                            <<"N", "e", "t", " ", "i", "n", "c", "o", "m", "e", " ", "o", "f", " ", "$", "3", ",", "2", "0", "0">>,
                            <<"N", "e", "t", " ", "i", "n", "c", "o", "m", "e", " ", "o", "f", " ", "$", "3", ".", "2", "B", " ", "i", "n", " ", "Q", "3">>,
                            <<"I", "n", " ", "Q", "2", " ", "n", "e", "t", " ", "i", "n", "c", "o", "m", "e", " ", "o", "f", " ", "$", "2", ".", "9", "B">>,
                            <<"R", "e", "v", "e", "n", "u", "e", "s", " ", "o", "f", " ", "$", "2", "0", ".", "3", "B", " ", "a", "n", "d", " ", "n", "e", "t", " ", "i", "n", "c", "o", "m", "e", " ", "o", "f", " ", "$", "2", ".", "9", "B">>}
    IN
    IF n = 0 THEN {<<>>}
    ELSE SentenceLists(n - 1)
         \cup {<<CleanSentence(s)>> \o l : s \in SampleSentences,
                                          l \in {h \in SentenceLists(n - 1) : Len(h) = n - 1}}

\* "reports/2024Q3_report.pdf" and "2023Q4/report.pdf" (a period in the name
\* of the directory only)
PdfFiles == {<<"r", "e", "p", "o", "r", "t", "s", "/", "2", "0", "2", "4", "Q", "3", "_", "r", "e", "p", "o", "r", "t", ".", "p", "d", "f">>,
             <<"2", "0", "2", "3", "Q", "4", "/", "r", "e", "p", "o", "r", "t", ".", "p", "d", "f">>}

\* "3Q24_summary.xlsx", "summary.xlsx" and "2023/3Q24_summary.xlsx" (the
\* first one in a directory named after a year)
ExcelFiles == {<<"3", "Q", "2", "4", "_", "s", "u", "m", "m", "a", "r", "y", ".", "x", "l", "s", "x">>,
               <<"s", "u", "m", "m", "a", "r", "y", ".", "x", "l", "s", "x">>,
               <<"2", "0", "2", "3", "/", "3", "Q", "2", "4", "_", "s", "u", "m", "m", "a", "r", "y", ".", "x", "l", "s", "x">>}

SampleGrids ==
    LET
        \* the sheet "Summary": two header rows, then the rows of the metrics
        Grid_columns_2Q_3Q ==
            <<<<NaN, Str(<<"2", "Q">>), Str(<<"3", "Q">>)>>,
              <<NaN, Str(<<"2", "0", "2", "4">>), Str(<<"2", "0", "2", "4">>)>>,
              <<Str(<<"C", "E", "T", "1", " ", "C", "a", "p", "i", "t", "a", "l", " ", "R", "a", "t", "i", "o">>), Dec(135, -3), Dec(136, -3)>>,
              <<Str(<<"T", "a", "n", "g", "i", "b", "l", "e", " ", "b", "o", "o", "k", " ", "v", "a", "l", "u", "e", " ", "p", "e", "r", " ", "s", "h", "a", "r", "e">>), Dec(542, -1), Dec(551, -1)>>,
              <<Str(<<"N", "e", "t", " ", "i", "n", "c", "o", "m", "e">>), Dec(29, 2), Dec(32, 2)>>>>

        \* the period in the first column, the labels in the last
        Grid_period_first ==
            <<<<Str(<<"3", "Q">>), Str(<<"2", "Q">>), NaN>>,
              <<Str(<<"2", "0", "2", "4">>), Str(<<"2", "0", "2", "4">>), NaN>>,
              <<Dec(203, 2), Dec(198, 2), Str(<<"R", "e", "v", "e", "n", "u", "e", "s">>)>>>>

        \* years read as floats, and a dash in the cell of the period
        Grid_no_header ==
            <<<<NaN, Str(<<"2", "Q">>), Str(<<"3", "Q">>)>>,
              <<NaN, Dec(2024, 0), Dec(2024, 0)>>,
              <<Str(<<"N", "e", "t", " ", "i", "n", "c", "o", "m", "e">>), Dec(29, 2), Str(<<"-">>)>>>>

        \* a dash (read_excel keeps it as text) and an empty cell in the
        \* column of the period
        Grid_text_cell ==
            <<<<NaN, Str(<<"2", "Q">>), Str(<<"3", "Q">>)>>,
              <<NaN, Str(<<"2", "0", "2", "4">>), Str(<<"2", "0", "2", "4">>)>>,
              <<Str(<<"N", "e", "t", " ", "i", "n", "c", "o", "m", "e">>), Dec(29, 2), Str(<<"-">>)>>,
              <<Str(<<"R", "e", "v", "e", "n", "u", "e", "s">>), Dec(198, 2), NaN>>>>
    IN
    {Grid_columns_2Q_3Q, Grid_period_first, Grid_no_header, Grid_text_cell}

Init ==
    /\ pc = "pdf"
    /\ pdf_file \in PdfFiles
    /\ sentences \in SentenceLists(MaxSentences)
    /\ excel_file \in ExcelFiles
    /\ summary_df \in SampleGrids
    /\ extracted_data = <<>>
    /\ pdf_metrics = <<>>
    /\ pdf_metric_dict = <<>>
    /\ excel_metric_dict = <<>>
    /\ relative_tolerance = DefaultTolerance
    /\ results = <<>>
    /\ calls = <<>>
    /\ filename = <<>>
    /\ period = NoPeriod
    /\ header_row = NoIndex
    /\ text_idx = NoIndex
    /\ column_index = NoIndex
    /\ selected_rows = <<>>
    /\ norm_call = None
    /\ norm_ret = None

\* main.py 165: pdf_metrics = get_metrics_values_from_pdf(pdf_file)
GetMetricsValuesFromPdf ==
    /\ pc = "pdf"
    /\ \E run \in {get_metrics_values_from_pdf(pdf_file, sentences)} :
         /\ extracted_data' = run.extracted_data
         /\ pdf_metrics' = run.metrics_list
         /\ filename' = run.filename
         /\ period' = run.period
    /\ pc' = "pdf_dict"
    /\ UNCHANGED <<pdf_file, sentences>>
    /\ UNCHANGED <<compareVars, excelVars>>
    /\ UNCHANGED normVars

\* main.py 166: the dict of the records of the list
BuildPdfDict ==
    /\ pc = "pdf_dict"
    /\ pdf_metric_dict' = PdfDictOf(pdf_metrics)
    /\ pc' = "excel"
    /\ UNCHANGED <<excel_metric_dict, relative_tolerance, results, calls>>
    /\ UNCHANGED <<resolverVars, pdfVars, excelVars>>
    /\ UNCHANGED normVars

\* main.py 167: excel_metric_dict = get_metrics_values_from_excel(excel_file)
GetMetricsValuesFromExcel ==
    /\ pc = "excel"
    /\ \E run \in {get_metrics_values_from_excel(excel_file, summary_df)} :
         /\ excel_metric_dict' = MetricToVal(run.entries)
         /\ selected_rows' = RowsOf(run.entries)
         /\ header_row' = run.header_row
         /\ text_idx' = (IF run.header_row = NoIndex THEN NoIndex ELSE run.header_row + 1)
         /\ column_index' = run.column_index
         /\ filename' = run.filename
         /\ period' = run.period
    /\ pc' = "compare"
    /\ UNCHANGED <<excel_file, summary_df>>
    /\ UNCHANGED <<pdf_metric_dict, relative_tolerance, results, calls>>
    /\ UNCHANGED pdfVars
    /\ UNCHANGED normVars

Next ==
    \/ GetMetricsValuesFromPdf
    \/ BuildPdfDict
    \/ GetMetricsValuesFromExcel
    \/ CompareValues

Spec == Init /\ [][Next]_vars

----------------------------------------------------------------------------
(* Claims about the document pipeline                                      *)

\* the quarter resolved from the name of the document
PdfQuarter == find_quarter_year_from_filename(base_filename(pdf_file)).quarter

\* the observations of a metric that the quarter filter keeps
SurvivingOf(metric) ==
    {i \in 1..Len(extracted_data) : /\ extracted_data[i].metric = metric
                                    /\ Survives(extracted_data[i], PdfQuarter)}

\* C8: the list returned by the disambiguation step, and the dict that
\* main gives to compare_values, hold an entry for a metric if and only if
\* at least one observation of the metric survives the quarter filter,
\* whatever its unit; a metric without one is a missing key.
C8_EntryIffSurvivingObservation ==
    /\ pc \in {"pdf_dict", "excel", "compare", "done", "error"} =>
         \A m \in MetricSet :
            (\E k \in 1..Len(pdf_metrics) : pdf_metrics[k].metric = m) <=> SurvivingOf(m) # {}
    /\ pc \in {"excel", "compare", "done", "error"} =>
         \A m \in MetricSet :
            m \in DictKeys(pdf_metric_dict) <=> SurvivingOf(m) # {}

----------------------------------------------------------------------------
(* Claims about get_metrics_from_df                                        *)

TangibleRowText == <<"t", "a", "n", "g", "i", "b", "l", "e", " ", "b", "o", "o", "k", " ", "v", "a", "l", "u", "e", " ", "p", "e", "r", " ", "s", "h", "a", "r", "e", " ", "5", "5", ".", "1", "0">>

\* the index of the row selected for a metric (NoIndex: none)
SelectedRow(metric) ==
    IF \E k \in 1..Len(selected_rows) : selected_rows[k].key = metric
    THEN selected_rows[CHOOSE k \in 1..Len(selected_rows) : selected_rows[k].key = metric].row
    ELSE NoIndex

\* the scanned rows whose text is "tangible book value per share 55.10"
TangibleRows ==
    {i \in 0..(Len(summary_df) - 1) :
       i >= text_idx /\ normalized_row_text(summary_df[i + 1]) = TangibleRowText}

\* the text of a scanned row without its trailing numbers
LabelOf(i) == strip_trailing_numbers(normalized_row_text(summary_df[i + 1]))

\* C9: a row whose text is "tangible book value per share 55.10" is never
\* the row selected for "Book value per share", not even when it is the
\* only row that contains that phrase; "Tangible book value per share" is
\* read from it (from the first row of this label, when several rows
\* have it).
C9_TangibleRowNotBookValue ==
    pc = "rows_done" =>
        /\ SelectedRow("Book value per share") \notin TangibleRows
        /\ TangibleRows # {} =>
             /\ SelectedRow("Tangible book value per share") \in 0..Min(TangibleRows)
             /\ LabelOf(SelectedRow("Tangible book value per share"))
                  = LowerStr(MetricText("Tangible book value per share"))

\* a text in lower case without its punctuation
Plain(text) == SelectSeq(LowerStr(text), LAMBDA ch : IsWordChar(ch) \/ IsSpace(ch))

\* the candidate rows of a metric: the rows from the starting index on
\* whose text is not empty and contains the name of the metric
CandidateRows(metric) ==
    {i \in 0..(Len(summary_df) - 1) :
       /\ i >= text_idx
       /\ normalized_row_text(summary_df[i + 1]) # <<>>
       /\ Contains(Plain(normalized_row_text(summary_df[i + 1])), Plain(MetricText(metric)))}

\* the similarity scores of the candidate rows of a metric
CandidateScores(metric) ==
    [i \in CandidateRows(metric) |-> get_edit_distance_score(LowerStr(MetricText(metric)), LabelOf(i))]

\* the candidate rows that no candidate row outscores
TopRows(score) ==
    {i \in DOMAIN score :
       \A j \in DOMAIN score : ~(score[j].num * score[i].den > score[i].num * score[j].den)}

\* the dict holds the metric with the cell of the row in the target column
HoldsCellOf(metric, i) ==
    \E k \in 1..Len(excel_metric_dict) :
       /\ excel_metric_dict[k].key = metric
       /\ excel_metric_dict[k].val = summary_df[i + 1][column_index + 1]

\* C20: each of the five metrics gets the cell, in the target column, of
\* its candidate row with the highest similarity score, the topmost one on
\* ties; the candidates are the non-empty rows from the starting index on
\* whose text contains the name of the metric (both lowercased, without
\* punctuation); a metric has a value iff it has a candidate, whatever the
\* score, and no row above the starting index is used
C20_BestCandidateRow ==
    pc = "rows_done" =>
        /\ {excel_metric_dict[k].key : k \in 1..Len(excel_metric_dict)}
             = {m \in MetricSet : CandidateRows(m) # {}}
        /\ \A m \in MetricSet :
             IF CandidateRows(m) = {}
             THEN SelectedRow(m) = NoIndex
             ELSE \E score \in {CandidateScores(m)} :
                     /\ SelectedRow(m) = Min(TopRows(score))
                     /\ SelectedRow(m) >= text_idx
                     /\ HoldsCellOf(m, Min(TopRows(score)))

\* C20: two candidate rows of a metric tie at the top with different cells,
\* and a metric has a single candidate, whose score is below 100
C20_Witness ==
    /\ pc = "rows_done"
    /\ \E m \in MetricSet : \E score \in {CandidateScores(m)} :
          /\ Cardinality(TopRows(score)) = 2
          /\ \E i, j \in TopRows(score) :
                summary_df[i + 1][column_index + 1] # summary_df[j + 1][column_index + 1]
    /\ \E m \in MetricSet : \E score \in {CandidateScores(m)} :
          /\ Cardinality(DOMAIN score) = 1
          /\ \E i \in DOMAIN score : score[i].num < score[i].den

----------------------------------------------------------------------------
(* Claims about extract_metrics                                            *)

BookPhrase == <<"b", "o", "o", "k", " ", "v", "a", "l", "u", "e", " ", "p", "e", "r", " ", "s", "h", "a", "r", "e">>

\* the occurrences of "book value per share" in a sentence
Occurrences(s) ==
    {p \in 1..(Len(s) - Len(BookPhrase) + 1) : SubSeq(s, p, p + Len(BookPhrase) - 1) = BookPhrase}

\* the occurrence is immediately preceded by "tangible "
AfterTangible(s, p) == p > 9 /\ SubSeq(s, p - 9, p - 1) = <<"t", "a", "n", "g", "i", "b", "l", "e", " ">>

\* the occurrence ends a word and a value follows it
ValueFollows(s, p) ==
    /\ WordBoundary(s, p + Len(BookPhrase))
    /\ NumberEnd(s, AfterDollar(s, p + Len(BookPhrase))) # 0

\* the value that follows the occurrence
ValueAfter(s, p) ==
    ParseFloat(Without(SubSeq(s, AfterDollar(s, p + Len(BookPhrase)),
                              NumberEnd(s, AfterDollar(s, p + Len(BookPhrase))) - 1), ","))

\* the occurrences that carry a "Book value per share" value
PlainValued(s) ==
    {p \in Occurrences(s) : ~AfterTangible(s, p) /\ WordBoundary(s, p) /\ ValueFollows(s, p)}

\* the occurrences that carry a "Tangible book value per share" value
TangibleValued(s) ==
    {p \in Occurrences(s) : AfterTangible(s, p) /\ WordBoundary(s, p - 9) /\ ValueFollows(s, p)}

\* the values of the observations of a metric
ValuesOf(metric) ==
    {extracted_data[i].value : i \in {j \in 1..Len(extracted_data) :
                                        extracted_data[j].metric = metric}}

----------------------------------------------------------------------------
(* Claims about main: a file name without a period                         *)

\* the period resolved from the name of the document, and from the path of
\* the workbook, as the two readers ask for it
PdfPeriod == find_quarter_year_from_filename(base_filename(pdf_file))
ExcelPeriod == find_quarter_year_from_filename(excel_file)

\* the resolver returned (None, None)
Unresolved(r) == r.quarter = None /\ r.year = None

\* the records of a run in which only the Excel dict has keys
ExcelOnlyResults ==
    [k \in 1..Len(excel_metric_dict) |->
       <<excel_metric_dict[k].key, None, excel_metric_dict[k].val, "No Match">>]

\* C11: when the resolver returns (None, None) for the name of a source,
\* the reader of that source returns an empty result: nothing is extracted
\* from the sentences, the grid is not searched and no row is read, and
\* nothing is raised; compare_values is then run and lists every metric of
\* the other source, each with the missing side None and "No Match".
C11_UnresolvedPeriodGivesEmptyResult ==
    /\ (pc # "pdf" /\ Unresolved(PdfPeriod)) =>
         /\ extracted_data = <<>>
         /\ pdf_metrics = <<>>
         /\ pdf_metric_dict = <<>>
         /\ pc # "error"
         /\ pc = "done" => results = ExcelOnlyResults
    /\ (pc \in {"compare", "done", "error"} /\ Unresolved(ExcelPeriod)) =>
         /\ excel_metric_dict = <<>>
         /\ selected_rows = <<>>
         /\ text_idx = NoIndex
         /\ column_index = NoIndex
         /\ pc # "error"
         /\ pc = "done" =>
              /\ Len(results) = Len(pdf_metric_dict)
              /\ \A k \in 1..Len(results) :
                   /\ results[k][1] = pdf_metric_dict[k].key
                   /\ results[k][3] = None
                   /\ results[k][4] = "No Match"

\* the name of the document has no period and its sentences hold metrics;
\* the workbook gives values, which are all listed with "No Match"
C11_Witness ==
    /\ pc = "done"
    /\ Unresolved(PdfPeriod)
    /\ extract_metrics(sentences) # <<>>
    /\ extracted_data = <<>>
    /\ ~Unresolved(ExcelPeriod)
    /\ Len(excel_metric_dict) >= 2
    /\ results = ExcelOnlyResults

----------------------------------------------------------------------------
(* Claims about get_metrics_values_from_excel                              *)

\* what the locator returns for the grid and the period of the workbook
ExcelLocation ==
    find_column_index_for_quarter_year(summary_df, ExcelPeriod.quarter.s, ExcelPeriod.year.s)

\* the locator found the two header rows and a column for the period
Located(loc) == loc.header_row # NoIndex /\ loc.column_index # NoIndex

\* C12: once the period is resolved, the Excel reader returns an empty
\* result on account of the locator only when the header rows or the
\* column are not found; whenever the locator returns a year row and a
\* column, whatever its 0-based index (0 included), the dict returned is
\* the one get_metrics_from_df gives from row year_row + 1 for that column.
C12_EmptyOnlyWhenNotLocated ==
    (pc \in {"compare", "done", "error"} /\ ~NoQuarterOrYear(ExcelPeriod)) =>
        IF Located(ExcelLocation)
        THEN /\ text_idx = ExcelLocation.header_row + 1
             /\ column_index = ExcelLocation.column_index
             /\ excel_metric_dict
                  = MetricToVal(get_metrics_from_df(summary_df, ExcelLocation.header_row + 1,
                                                    ExcelLocation.column_index))
        ELSE excel_metric_dict = <<>>

\* C13: a value that is not a number never reaches compare_values and
\* never makes the run fail: every observation of the document has a
\* numeric value; every value of the dict of the workbook is a number, a
\* matched row whose cell in the column of the period is a text or empty
\* giving no entry; the metrics whose row has a number keep their entry,
\* and the comparison is made (the run does not end in an exception).
C13_UnparsedValueNeverCompared ==
    /\ pc # "error"
    /\ \A i \in 1..Len(extracted_data) : IsNum(extracted_data[i].value)
    /\ pc \in {"compare", "done"} =>
         \A k \in 1..Len(excel_metric_dict) : IsNum(excel_metric_dict[k].val)
    /\ (pc \in {"compare", "done"} /\ text_idx # NoIndex /\ column_index \notin {NoIndex, 0}) =>
         \A e \in Range(get_metrics_from_df(summary_df, text_idx, column_index)) :
            IsNum(e.val) => /\ e.key \in DictKeys(excel_metric_dict)
                            /\ DictGet(excel_metric_dict, e.key) = e.val

----------------------------------------------------------------------------
(* Claims about the order of the records                                   *)

\* the rank of a metric in the priority list
PriorityOf(metric) == CHOOSE k \in 1..Len(metrics) : metrics[k] = metric

\* C14: the records compare_values returns are in the order of the priority
\* list (CET1 Capital Ratio, Tangible book value per share, Book value per
\* share, Net income, Revenues), whatever the order of the keys of the two
\* dicts and whichever dict holds each metric.
C14_ResultsInPriorityOrder ==
    pc = "done" =>
        \A i, j \in ResultIdx :
           i < j => PriorityOf(results[i][1]) < PriorityOf(results[j][1])

----------------------------------------------------------------------------
(* Claims about the name given to the resolver                             *)

\* os.path.basename of a path
PathBasename(path) ==
    LET
        \* the slashes of the path and the start of the path
        Cuts == {0} \cup {i \in 1..Len(path) : path[i] = "/"}
    IN
    SubSeq(path, (CHOOSE i \in Cuts : \A j \in Cuts : j <= i) + 1, Len(path))

\* the quarter and the year the resolver gives for a name
PeriodOf(name) ==
    <<find_quarter_year_from_filename(name).quarter, find_quarter_year_from_filename(name).year>>

\* C15: the two readers give the resolver the last component of the path
\* only, so the quarter and the year used for a file are those of its
\* basename, whatever the directories of the path it is given under.
C15_PeriodFromBasename ==
    /\ pc \in {"pdf_dict", "excel"} =>
         /\ "/" \notin Range(filename)
         /\ <<period.quarter, period.year>> = PeriodOf(PathBasename(pdf_file))
    /\ pc \in {"compare", "done", "error"} =>
         /\ "/" \notin Range(filename)
         /\ <<period.quarter, period.year>> = PeriodOf(PathBasename(excel_file))

----------------------------------------------------------------------------
(* Claims about the disambiguation step                                    *)

\* the record of a metric in the list the PDF reader returns
RecordOf(metric) ==
    pdf_metrics[CHOOSE k \in 1..Len(pdf_metrics) : pdf_metrics[k].metric = metric]

\* two observations are of the same (value, unit) group
SameGroup(i, j) ==
    /\ extracted_data[i].value = extracted_data[j].value
    /\ extracted_data[i].unit = extracted_data[j].unit

\* the surviving observations of the group of the observation i of a metric
GroupOf(metric, i) == {j \in SurvivingOf(metric) : SameGroup(i, j)}

\* every surviving observation of the metric carries a unit
AllWithUnit(metric) == \A i \in SurvivingOf(metric) : extracted_data[i].unit # "None"

\* the observation i is of the group chosen for its metric
Chosen(metric, i) ==
    /\ RecordOf(metric).value = extracted_data[i].value
    /\ RecordOf(metric).unit = extracted_data[i].unit

\* C16: for every metric with surviving observations (all of them with a
\* unit; a group without unit is the matter of C8), the (value, unit) of
\* its record is a group of surviving observations whose count is at
\* least that of every other group of the metric and, among the groups of
\* the highest count, the one whose first observation comes first in the
\* document.
C16_MostFrequentFirstSeen ==
    (pc # "pdf" /\ ~Unresolved(PdfPeriod)) =>
        \A m \in MetricSet :
           (SurvivingOf(m) # {} /\ AllWithUnit(m)) =>
               \E i \in SurvivingOf(m) :
                  /\ Chosen(m, i)
                  /\ \A j \in SurvivingOf(m) :
                       \/ Cardinality(GroupOf(m, j)) < Cardinality(GroupOf(m, i))
                       \/ /\ Cardinality(GroupOf(m, j)) = Cardinality(GroupOf(m, i))
                          /\ Min(GroupOf(m, i)) <= Min(GroupOf(m, j))

\* the sentence gives no observation tagged with a quarter other than the
\* quarter of the document (the observations of a sentence share its tag)
NoOtherQuarter(sentence) ==
    \A o \in Range(extract_metrics(<<sentence>>)) : Survives(o, PdfQuarter)

\* the list the PDF reader returns for the document without the sentences
\* whose observations are tagged with another quarter
ListWithoutOtherQuarters ==
    get_metrics_values_from_pdf(pdf_file, SelectSeq(sentences, NoOtherQuarter)).metrics_list

\* C17: an observation tagged with a quarter other than that of the document
\* counts for nothing: the (value, unit) of every record that has a value
\* is that of an observation tagged with the quarter of the document or
\* with no quarter, and the list returned is the one the document gives
\* without its observations of other quarters.
C17_OtherQuartersDoNotCount ==
    (pc # "pdf" /\ ~Unresolved(PdfPeriod)) =>
        /\ \A k \in 1..Len(pdf_metrics) :
              ~IsNaN(pdf_metrics[k].value) =>
                  \E i \in SurvivingOf(pdf_metrics[k].metric) :
                     Chosen(pdf_metrics[k].metric, i)
        /\ pdf_metrics = ListWithoutOtherQuarters

----------------------------------------------------------------------------
(* Claims about the locator of the period column                           *)

\* the text of the cell holds a digit followed by a Q, or a Q followed by a
\* digit, in either case of the letter
HasQuarterToken(text) ==
    \E i \in 1..(Len(text) - 1) :
       \/ text[i] \in DigitSet /\ text[i + 1] \in {"Q", "q"}
       \/ text[i] \in {"Q", "q"} /\ text[i + 1] \in DigitSet

\* the text of the cell is four digits and nothing else
IsFourDigits(text) == Len(text) = 4 /\ Range(text) \subseteq DigitSet

\* row i of the grid (from 0) has more than one cell with a quarter token
IsQuarterRow(i) ==
    Cardinality({c \in 1..Len(summary_df[i + 1]) : HasQuarterToken(CellStr(summary_df[i + 1][c]))}) > 1

\* row i of the grid (from 0) has more than one cell of four digits
IsYearRow(i) ==
    Cardinality({c \in 1..Len(summary_df[i + 1]) : IsFourDigits(CellStr(summary_df[i + 1][c]))}) > 1

QuarterRows == {i \in 0..(Len(summary_df) - 1) : IsQuarterRow(i)}

\* the topmost quarter row is directly followed by a year row
TopPairValid ==
    /\ QuarterRows # {}
    /\ Min(QuarterRows) + 1 < Len(summary_df)
    /\ IsYearRow(Min(QuarterRows) + 1)

\* C18: the locator takes the topmost row with more than one quarter token
\* as the quarter row and accepts as year row only the row directly after
\* it, when that row has more than one cell of four digits; the year row it
\* returns is the quarter row + 1, and in every other case it reports not
\* found, whatever pair of rows lies further down
C18_YearRowIsDirectSuccessor ==
    pc = "located" =>
        IF TopPairValid
        THEN header_row = Min(QuarterRows) + 1
        ELSE header_row = NoIndex /\ column_index = NoIndex

\* C18: not found, while a quarter row directly followed by a year row lies
\* below the topmost quarter row
C18_Witness ==
    /\ pc = "located"
    /\ header_row = NoIndex
    /\ \E i \in QuarterRows : i > Min(QuarterRows) /\ i + 1 < Len(summary_df) /\ IsYearRow(i + 1)

\* the text of the cell of row i and column c of the grid (both from 0),
\* the empty text for an empty cell
HeaderCell(i, c) ==
    IF IsNaN(summary_df[i + 1][c + 1]) THEN <<>> ELSE CellStr(summary_df[i + 1][c + 1])

\* the columns whose quarter cell (the row above the year row), stripped
\* and uppercased, has the characters of the target quarter and whose year
\* cell, stripped, is the target year
TargetColumns ==
    {c \in 0..(Len(summary_df[header_row + 1]) - 1) :
        /\ Range(UpperStr(Strip(HeaderCell(header_row - 1, c)))) = Range(period.quarter.s)
        /\ Strip(HeaderCell(header_row, c)) = period.year.s}

\* C19: once the header rows are located, the column returned is the
\* smallest one whose quarter cell (stripped, uppercased) has the same set of
\* characters as the target quarter and whose year cell (stripped) is the
\* target year; no column is returned when none is like that
C19_SmallestMatchingColumn ==
    (pc = "located" /\ header_row # NoIndex) =>
        IF TargetColumns = {}
        THEN column_index = NoIndex
        ELSE column_index = Min(TargetColumns)

\* C19: the column of a cell "3Q" is returned for the target "Q3"
C19_Witness ==
    /\ pc = "located"
    /\ header_row # NoIndex
    /\ column_index # NoIndex
    /\ period.quarter.s = <<"Q", "3">>
    /\ HeaderCell(header_row - 1, column_index) = <<"3", "Q">>

----------------------------------------------------------------------------
(* Claims about the quarter tag of an observation                          *)

\* the character at position i of a text, "" outside it
CharAt(text, i) == IF i \in 1..Len(text) THEN text[i] ELSE ""

\* the characters i..j of a text, "" standing for a position outside it
Slice(text, i, j) == [k \in 1..(j - i + 1) |-> CharAt(text, i + k - 1)] \o <<>>

\* the digit of the quarter token that starts at position i of a sentence
\* in lower case ("q" and a digit of 1..4, such a digit and "q", or "1st",
\* "2nd", "3rd", "4th" followed by " quarter"); "" when none starts there
TokenDigitAt(text, i) ==
    IF CharAt(text, i) = "q" /\ CharAt(text, i + 1) \in {"1", "2", "3", "4"}
    THEN CharAt(text, i + 1)
    ELSE IF CharAt(text, i) \in {"1", "2", "3", "4"} /\ CharAt(text, i + 1) = "q"
    THEN CharAt(text, i)
    ELSE IF /\ Slice(text, i, i + 2) \in {<<"1", "s", "t">>, <<"2", "n", "d">>, <<"3", "r", "d">>, <<"4", "t", "h">>}
            /\ Slice(text, i + 3, i + 10) = <<" ", "q", "u", "a", "r", "t", "e", "r">>
    THEN CharAt(text, i)
    ELSE ""

\* the positions of a sentence where a quarter token starts
TokenStarts(text) == {i \in 1..Len(text) : TokenDigitAt(text, i) # ""}

\* the tag of a sentence: Q and the digit of its first quarter token, None
\* (the unknown quarter) without a token
TagOf(text) ==
    IF TokenStarts(text) = {} THEN None
    ELSE Str(<<"Q", TokenDigitAt(text, Min(TokenStarts(text)))>>)

QuarterTags == {Str(<<"Q", d>>) : d \in {"1", "2", "3", "4"}}

NetIncomeSample == <<"n", "e", "t", " ", "i", "n", "c", "o", "m", "e", " ", "o", "f", " ", "$", "3", ".", "2", "b">>

\* C21: the quarter tag of every observation is Q1, Q2, Q3, Q4 or unknown
\* (None): it is the standard form of the first quarter token of the
\* sentence of the observation, and unknown when the sentence has no token;
\* a sentence without a usable token still gives its observation
C21_QuarterTagOfSentence ==
    pc = "extracted" =>
        /\ \A i \in 1..Len(extracted_data) :
             /\ extracted_data[i].quarter \in QuarterTags \cup {None}
             /\ extracted_data[i].quarter = TagOf(extracted_data[i].sentence)
             /\ extracted_data[i].sentence = sentences[1]
        /\ Contains(sentences[1], NetIncomeSample) =>
             \E i \in 1..Len(extracted_data) : extracted_data[i].metric = "Net income"

\* C21: an observation tagged Q3 from the token "3rd quarter", in a
\* sentence where another token follows
C21_Witness ==
    /\ pc = "extracted"
    /\ Len(extracted_data) = 1
    /\ extracted_data[1].quarter = Str(<<"Q", "3">>)
    /\ Slice(sentences[1], 1, 11) = <<"3", "r", "d", " ", "q", "u", "a", "r", "t", "e", "r">>
    /\ Cardinality(TokenStarts(sentences[1])) = 2

----------------------------------------------------------------------------
(* Claims about the three scales of compare_values                         *)

\* the comparisons, of the three, that are within tolerance
ScalesWithin(n, t) ==
    {j \in 1..3 : is_within_tolerance(n, FScale(t, CASE j = 1 -> 0 [] j = 2 -> 3 [] j = 3 -> -3),
                                     relative_tolerance)}

\* the calls of a metric that returned True
TrueCalls(k) == {j \in 1..Len(CallsOf(k)) : CallsOf(k)[j].ret}

\* C23: for a metric of both mappings with a non-percent unit, nonzero
\* values and a tolerance below 0.99, at most one of the comparisons
\* narrative vs tabular, vs tabular x 1000 and vs tabular / 1000 is within
\* tolerance; the verdict is Match iff there is one, in whatever order the
\* three are tried, and it is the last call that is made
C23_AtMostOneScaleWithin ==
    (pc = "done" /\ FGt(Dec(99, -2), relative_tolerance)) =>
        \A i \in 1..Len(pdf_metric_dict) :
          \E k \in {pdf_metric_dict[i].key} : \E info \in {pdf_metric_dict[i].val} :
            (InBoth(k) /\ info.unit # "%" /\ ~FIsZero(info.value)
               /\ ~FIsZero(DictGet(excel_metric_dict, k))) =>
              \E within \in {ScalesWithin(info.value, DictGet(excel_metric_dict, k))} :
                 /\ Cardinality(within) <= 1
                 /\ (StatusOf(k) = "Match") <=> (within # {})
                 /\ Cardinality(TrueCalls(k)) = Cardinality(within)
                 /\ within # {} =>
                      /\ Len(CallsOf(k)) \in within
                      /\ TrueCalls(k) = {Len(CallsOf(k))}

\* C23: with the tolerance 0.5, a pair of values that is within tolerance at
\* the x 1000 scale only
C23_Witness ==
    /\ pc = "done"
    /\ relative_tolerance = Dec(5, -1)
    /\ \E i \in 1..Len(pdf_metric_dict) :
         /\ InBoth(pdf_metric_dict[i].key)
         /\ pdf_metric_dict[i].val.unit # "%"
         /\ pdf_metric_dict[i].val.value # DictGet(excel_metric_dict, pdf_metric_dict[i].key)
         /\ ScalesWithin(pdf_metric_dict[i].val.value,
                         DictGet(excel_metric_dict, pdf_metric_dict[i].key)) = {2}
         /\ FScale(DictGet(excel_metric_dict, pdf_metric_dict[i].key), 3) # pdf_metric_dict[i].val.value
         /\ StatusOf(pdf_metric_dict[i].key) = "Match"

----------------------------------------------------------------------------
(* Claims about the year of a file name                                    *)

\* the runs of four consecutive digits of a file name
FourDigitRuns(f) ==
    {SubSeq(f, i, i + 3) : i \in {j \in 1..(Len(f) - 3) : Range(SubSeq(f, j, j + 3)) \subseteq DigitSet}}

\* C24: when the file name holds four consecutive digits, a year that is
\* returned is one of its runs of four consecutive digits; "20" is never
\* put in front of the first two digits of a four-digit year ("3Q2024"
\* gives the year 2024)
C24_YearIsFourDigitRun ==
    (pc = "resolved" /\ IsStr(period.year) /\ FourDigitRuns(filename) # {}) =>
        period.year.s \in FourDigitRuns(filename)

----------------------------------------------------------------------------
(* Claims about normalize_value                                            *)

\* the number a literal writes once "$" and the thousands separators are removed
AmountOf(text) == ParseFloat(Without(Without(text, "$"), ","))

\* a text without its last character
WithoutSuffix(text) == SubSeq(text, 1, Len(text) - 1)

\* C22: with value type millions_billions a literal x with suffix M or m
\* gives (x / 1000, "M"), a literal x with suffix B or b gives (x, "B") and
\* a bare literal x gives (x, None), "$" and "," removed; x / 1000 is the
\* value the same amount written in billions gives ("700M" and "0.7B"
\* give the same number)
C22_MillionsAreAThousandthOfBillions ==
    (pc = "normalized" /\ norm_call.value_type = "millions_billions") =>
        \E last \in {norm_call.value[Len(norm_call.value)]} :
            /\ (last \in {"M", "m"} /\ IsNum(AmountOf(WithoutSuffix(norm_call.value)))) =>
                   norm_ret = [value |-> FScale(AmountOf(WithoutSuffix(norm_call.value)), -3),
                               unit |-> "M"]
            /\ (last \in {"B", "b"} /\ IsNum(AmountOf(WithoutSuffix(norm_call.value)))) =>
                   norm_ret = [value |-> AmountOf(WithoutSuffix(norm_call.value)), unit |-> "B"]
            /\ (last \in DigitSet /\ IsNum(AmountOf(norm_call.value))) =>
                   norm_ret = [value |-> AmountOf(norm_call.value), unit |-> "None"]

=============================================================================
